---- MODULE Spec2Model ----
(***************************************************************************)
(* Concept-Studio: the raster painting core (canvas event handlers, the    *)
(* drawing engine and the history manager) as a state machine.             *)
(*                                                                         *)
(* The repository holds three implementations of the canvas:               *)
(*   "root"    src/canvas.py + src/drawing_engine.py, with the patch based *)
(*             HistoryManager of src/Gesso/history.py (imported as         *)
(*             `history`);                                                 *)
(*   "gesso"   src/Gesso/canvas.py + src/Gesso/drawing_engine.py, with the *)
(*             same HistoryManager;                                        *)
(*   "studio"  src/concept_studio/ui/canvas.py with the snapshot based     *)
(*             HistoryManager of src/concept_studio/logic/history.py.      *)
(* The variable `program` says which one a behaviour runs.                 *)
(*                                                                         *)
(* Abstractions, stated once:                                              *)
(*  - a pixel holds one of the values of Colors; a stamp or a fill sets    *)
(*    the pixels it covers to the brush colour (alpha blending of the soft *)
(*    tip is not modelled);                                                *)
(*  - pointer events carry world positions (the result of to_world /       *)
(*    map_to_canvas); the view offset and zoom are not part of the state;  *)
(*  - distances along a stroke are counted in tenths of a pixel, so that   *)
(*    the spacing size * 0.1 is an integer.                                *)
(***************************************************************************)
EXTENDS Integers, Sequences, FiniteSets, TLC

\* ------------------------------------------------------------------ bounds
\* Width and height of the canvas, in pixels (800 x 600 in init_layers).
CanvasW == 24
CanvasH == 2
\* Capacity of the undo stack (max_history = 50 in the source).
max_history == 2
\* Capacity of the snapshot stacks of the studio (limit = 20 in the source).
limit == 3
\* The most layers add_new_layer / add_layer may build up.
MaxLayers == 3
\* Capacity of Canvas.undo_stack of Gesso, the stack of full images (20 in
\* the source).
legacy_limit == 1
\* The farthest a transform drag may carry a layer of the studio, per axis.
MaxOffset == 20
\* The most points a lasso may collect.
MaxLasso == 4

\* ------------------------------------------------------- program constants
\* brush_size of a new DrawingEngine.
InitBrushSize == 20
\* The fixed margin added by max_reach.
ReachMargin == 20
\* Brush size clamp of Canvas.set_brush_size (root).
MaxBrushSize == 500
\* brush_size of a new Canvas of the studio.
StudioBrushSize == 5

\* Python's None, for the fields that hold a record (a pixmap, a rectangle,
\* a brush tip), a point, or a name / returned value.
None == [none |-> TRUE]
NoPoint == << >>
Unset == "None"

\* Pixel values: transparent, white, and the two brush colours of the model.
Colors == {"T", "W", "K", "R"}
BrushColors == {"K", "R"}

\* ---------------------------------------------------------------- geometry
\* A QPoint is <<x, y>>.  A QRect is kept as Qt keeps it: the inclusive
\* corners x1, y1, x2, y2.
Point(x, y) == <<x, y>>
PX(p) == p[1]
PY(p) == p[2]

Min(a, b) == IF a <= b THEN a ELSE b
Max(a, b) == IF a >= b THEN a ELSE b

QRect(x, y, w, h) == [x1 |-> x, y1 |-> y, x2 |-> x + w - 1, y2 |-> y + h - 1]
QRectPP(p, q) == [x1 |-> PX(p), y1 |-> PY(p), x2 |-> PX(q), y2 |-> PY(q)]
NullRect == QRect(0, 0, 0, 0)

RectIsNull(r) == r.x2 = r.x1 - 1 /\ r.y2 = r.y1 - 1
RectIsEmpty(r) == r.x1 > r.x2 \/ r.y1 > r.y2
RectIsValid(r) == r.x1 <= r.x2 /\ r.y1 <= r.y2
RectW(r) == r.x2 - r.x1 + 1
RectH(r) == r.y2 - r.y1 + 1
TopLeft(r) == Point(r.x1, r.y1)

\* QRect::normalized (Qt 6): a rectangle of negative extent is turned round.
Normalized(r) ==
    [x1 |-> IF r.x2 < r.x1 THEN r.x2 + 1 ELSE r.x1,
     x2 |-> IF r.x2 < r.x1 THEN r.x1 - 1 ELSE r.x2,
     y1 |-> IF r.y2 < r.y1 THEN r.y2 + 1 ELSE r.y1,
     y2 |-> IF r.y2 < r.y1 THEN r.y1 - 1 ELSE r.y2]

Adjusted(r, dx1, dy1, dx2, dy2) ==
    [x1 |-> r.x1 + dx1, y1 |-> r.y1 + dy1, x2 |-> r.x2 + dx2, y2 |-> r.y2 + dy2]

\* QRect::united: the bounding rectangle; a null operand yields the other.
United(a, b) ==
    IF RectIsNull(a) THEN b
    ELSE IF RectIsNull(b) THEN a
    ELSE LET na == Normalized(a)
             nb == Normalized(b)
         IN [x1 |-> Min(na.x1, nb.x1), y1 |-> Min(na.y1, nb.y1),
             x2 |-> Max(na.x2, nb.x2), y2 |-> Max(na.y2, nb.y2)]

\* QRect::intersected: the null rectangle when the two do not meet.
Intersected(a, b) ==
    IF RectIsNull(a) \/ RectIsNull(b) THEN NullRect
    ELSE LET na == Normalized(a)
             nb == Normalized(b)
         IN IF na.x1 > nb.x2 \/ nb.x1 > na.x2 \/ na.y1 > nb.y2 \/ nb.y1 > na.y2
            THEN NullRect
            ELSE [x1 |-> Max(na.x1, nb.x1), y1 |-> Max(na.y1, nb.y1),
                  x2 |-> Min(na.x2, nb.x2), y2 |-> Min(na.y2, nb.y2)]

RectContains(r, p) ==
    /\ ~RectIsNull(r)
    /\ LET n == Normalized(r)
       IN  n.x1 <= PX(p) /\ PX(p) <= n.x2 /\ n.y1 <= PY(p) /\ PY(p) <= n.y2

\* ----------------------------------------------------------------- pixmaps
\* A QPixmap / QImage is a record of its size and its pixels, indexed from
\* <<0, 0>>.
PixOf(w, h) == (0 .. w - 1) \X (0 .. h - 1)
Pixmap(w, h, c) == [w |-> w, h |-> h, px |-> [p \in PixOf(w, h) |-> c]]
PixRect(pm) == QRect(0, 0, pm.w, pm.h)

\* QPixmap.copy(rect): a new pixmap of the size of rect; what lies outside
\* the source is transparent.
Copy(pm, r) ==
    [w |-> RectW(r), h |-> RectH(r),
     px |-> [p \in PixOf(RectW(r), RectH(r)) |->
               LET q == Point(PX(p) + r.x1, PY(p) + r.y1)
               IN  IF q \in DOMAIN pm.px THEN pm.px[q] ELSE "T"]]

\* QPainter.drawPixmap(topLeft, patch) in CompositionMode_Source: the pixels
\* under the patch are replaced, transparency included.
DrawSource(pm, topLeft, patch) ==
    [pm EXCEPT !.px =
        [p \in DOMAIN pm.px |->
           LET q == Point(PX(p) - PX(topLeft), PY(p) - PY(topLeft))
           IN  IF q \in DOMAIN patch.px THEN patch.px[q] ELSE pm.px[p]]]

\* QPainter.drawPixmap(topLeft, patch) in the default SourceOver mode: the
\* transparent pixels of the patch leave the target as it is.
DrawOver(pm, topLeft, patch) ==
    [pm EXCEPT !.px =
        [p \in DOMAIN pm.px |->
           LET q == Point(PX(p) - PX(topLeft), PY(p) - PY(topLeft))
           IN  IF q \in DOMAIN patch.px /\ patch.px[q] # "T"
               THEN patch.px[q] ELSE pm.px[p]]]

\* ------------------------------------------------------------- selections
\* The clip handed to the engine: none, a rectangle, or a polygon (lasso).
NoClip == [kind |-> "none"]
RectClip(r) == [kind |-> "rect", rect |-> r]
PolyClip(path) == [kind |-> "poly", path |-> path]

\* Does the edge a -> b cross the ray that leaves <<cx, cy>> towards +x?
\* All coordinates are doubled, so that cx, cy is a pixel centre.
EdgeCrosses(a, b, cx, cy) ==
    /\ (PY(a) > cy) # (PY(b) > cy)
    /\ IF PY(b) > PY(a)
       THEN (cx - PX(a)) * (PY(b) - PY(a)) < (cy - PY(a)) * (PX(b) - PX(a))
       ELSE (cx - PX(a)) * (PY(b) - PY(a)) > (cy - PY(a)) * (PX(b) - PX(a))

\* QPainterPath.addPolygon + setClipPath, odd-even rule on the pixel centre.
InPolygon(path, p) ==
    LET n == Len(path)
        D(i) == Point(2 * PX(path[i]), 2 * PY(path[i]))
        crossings == {i \in 1 .. n :
                        EdgeCrosses(D(i), D((i % n) + 1), 2 * PX(p) + 1, 2 * PY(p) + 1)}
    IN  Cardinality(crossings) % 2 = 1

InClip(clip, p) ==
    CASE clip.kind = "none" -> TRUE
      [] clip.kind = "rect" -> RectContains(clip.rect, p)
      [] clip.kind = "poly" -> InPolygon(clip.path, p)

\* ------------------------------------------------------------------ engine
\* max_reach with the scatter radius taken off instead of added.
reach_less_scatter(brush_size, jitter_scatter) ==
    (brush_size * 100 - brush_size * 2 * jitter_scatter + ReachMargin * 100) \div 100

\* DrawingEngine.max_reach: brush_size + scatter radius + 20, truncated.
\* jitter_scatter is given in hundredths.
max_reach(brush_size, jitter_scatter) ==
    (brush_size * 100 + brush_size * 2 * jitter_scatter + ReachMargin * 100) \div 100

\* spacing = max(1.0, brush_size * brush_spacing_factor), in tenths of a pixel,
\* for the spacing factor 0.1 of a new engine.
Spacing(brush_size) == Max(10, brush_size)

\* draw_stamp at pressure 1.0 and no jitter: the tip, brush_size wide, is
\* drawn with its corner at int(-width / 2) from the stamp position.  pos is
\* in tenths of a pixel.  The covered pixels take the colour `ink`.
StampCovers(pos, brush_size, p) ==
    LET lox == PX(pos) - 10 * (brush_size \div 2)
        loy == PY(pos) - 10 * (brush_size \div 2)
    IN  /\ 10 * PX(p) < lox + 10 * brush_size /\ 10 * PX(p) + 10 > lox
        /\ 10 * PY(p) < loy + 10 * brush_size /\ 10 * PY(p) + 10 > loy

draw_stamp(pm, pos, brush_size, ink, clip) ==
    [pm EXCEPT !.px =
        [p \in DOMAIN pm.px |->
           IF StampCovers(pos, brush_size, p) /\ InClip(clip, p)
           THEN ink ELSE pm.px[p]]]

\* Integer square root (floor), by bisection between lo and hi.
RECURSIVE ISqrtIn(_, _, _)
ISqrtIn(n, lo, hi) ==
    IF lo >= hi THEN lo
    ELSE LET mid == (lo + hi + 1) \div 2
         IN  IF mid * mid <= n THEN ISqrtIn(n, mid, hi) ELSE ISqrtIn(n, lo, mid - 1)
ISqrt(n) == ISqrtIn(n, 0, n)

\* segment_length in tenths of a pixel.
SegmentLength(start, end) ==
    LET dx == PX(end) - PX(start)
        dy == PY(end) - PY(start)
    IN  IF dy = 0 THEN 10 * (IF dx < 0 THEN -dx ELSE dx)
        ELSE IF dx = 0 THEN 10 * (IF dy < 0 THEN -dy ELSE dy)
        ELSE ISqrt(100 * (dx * dx + dy * dy))

\* The point at distance `traveled` along the segment, in tenths of a pixel.
PointAt(start, end, traveled, len) ==
    Point(10 * PX(start) + ((PX(end) - PX(start)) * 10 * traveled) \div len,
          10 * PY(start) + ((PY(end) - PY(start)) * 10 * traveled) \div len)

\* The while loop of draw_line with the whole length of the segment taken off
\* the carried distance at the end, instead of the rest behind the last
\* stamp.
RECURSIVE StampLoopWhole(_, _, _, _, _, _, _, _, _)
StampLoopWhole(pm, traveled, dist, len, start, end, brush_size, ink, clip) ==
    IF traveled + dist <= len
    THEN StampLoopWhole(draw_stamp(pm, PointAt(start, end, traveled + dist, len),
                                   brush_size, ink, clip),
                        traveled + dist, Spacing(brush_size), len, start, end,
                        brush_size, ink, clip)
    ELSE [pm |-> pm, dist |-> dist - len]

\* The while loop of draw_line: a stamp wherever the travelled distance
\* reaches the carried distance, then every `spacing`; the rest is carried.
RECURSIVE StampLoop(_, _, _, _, _, _, _, _, _)
StampLoop(pm, traveled, dist, len, start, end, brush_size, ink, clip) ==
    IF traveled + dist <= len
    THEN StampLoop(draw_stamp(pm, PointAt(start, end, traveled + dist, len),
                              brush_size, ink, clip),
                   traveled + dist, Spacing(brush_size), len, start, end,
                   brush_size, ink, clip)
    ELSE [pm |-> pm, dist |-> dist - (len - traveled)]

\* DrawingEngine.draw_line of the root engine.  The eraser flag selects no
\* composition mode there: an eraser stroke paints like a brush stroke.
\* Result: the pixmap and the new dist_to_next_dot.
draw_line(pm, start, end, dist, brush_size, ink, clip) ==
    IF SegmentLength(start, end) = 0
    THEN [pm |-> draw_stamp(pm, Point(10 * PX(end), 10 * PY(end)), brush_size, ink, clip),
          dist |-> dist]
    ELSE StampLoop(pm, 0, dist, SegmentLength(start, end), start, end,
                   brush_size, ink, clip)

\* The while loop of draw_line with `<` for `<=`: no stamp where the
\* travelled distance equals the length of the segment.
RECURSIVE StampPointsBefore(_, _, _, _, _, _)
StampPointsBefore(traveled, dist, len, start, end, brush_size) ==
    IF traveled + dist < len
    THEN <<PointAt(start, end, traveled + dist, len)>>
         \o StampPointsBefore(traveled + dist, Spacing(brush_size), len, start, end,
                              brush_size)
    ELSE <<>>

\* The positions of the stamps one draw_line call places, in the order it
\* places them and in tenths of a pixel: the end point for a segment of
\* length zero, else the points of the while loop.
RECURSIVE StampPoints(_, _, _, _, _, _)
StampPoints(traveled, dist, len, start, end, brush_size) ==
    IF traveled + dist <= len
    THEN <<PointAt(start, end, traveled + dist, len)>>
         \o StampPoints(traveled + dist, Spacing(brush_size), len, start, end, brush_size)
    ELSE <<>>
stamp_positions(start, end, dist, brush_size) ==
    IF SegmentLength(start, end) = 0
    THEN <<Point(10 * PX(end), 10 * PY(end))>>
    ELSE StampPoints(0, dist, SegmentLength(start, end), start, end, brush_size)
\* dist_to_next_dot after one draw_line call.
carried(start, end, dist, brush_size) ==
    IF SegmentLength(start, end) = 0 THEN dist
    ELSE LET placed == stamp_positions(start, end, dist, brush_size)
             len == SegmentLength(start, end)
         IN  IF placed = <<>> THEN dist - len
             ELSE Spacing(brush_size) - (len - (dist + (Len(placed) - 1) * Spacing(brush_size)))

\* The selection data handle_press / handle_move package for the engine:
\* the rectangle when it is set and not empty, else a lasso of more than
\* two points.
SelectionClip(rect, lasso) ==
    IF rect # None /\ RectIsValid(rect) THEN RectClip(rect)
    ELSE IF Len(lasso) > 2 THEN PolyClip(lasso)
    ELSE NoClip

\* DrawingEngine.flood_fill of the root engine: breadth-first fill of the
\* pixels 4-connected to the seed through the seed's colour.  The queue is
\* followed one distance from the seed at a time: `frontier` holds the
\* pixels queued at the current distance, `visited` those already filled.
Neighbours(p) == {Point(PX(p) + 1, PY(p)), Point(PX(p) - 1, PY(p)),
                  Point(PX(p), PY(p) + 1), Point(PX(p), PY(p) - 1)}
RECURSIVE FloodLoop(_, _, _, _)
FloodLoop(frontier, visited, px, target) ==
    LET fresh == {p \in frontier : p \notin visited /\ p \in DOMAIN px /\ px[p] = target}
    IN  IF fresh = {} THEN visited
        ELSE FloodLoop(UNION {Neighbours(p) : p \in fresh}, visited \cup fresh, px, target)

flood_fill(pm, start_pos, new_color) ==
    IF start_pos \notin DOMAIN pm.px THEN pm
    ELSE IF pm.px[start_pos] = new_color THEN pm
    ELSE LET filled == FloodLoop({start_pos}, {}, pm.px, pm.px[start_pos])
         IN  [pm EXCEPT !.px = [p \in DOMAIN pm.px |->
                                  IF p \in filled THEN new_color ELSE pm.px[p]]]

\* ------------------------------------------------------------------- state
VARIABLES
    program,              \* "root", "gesso" or "studio"
    event,                \* the last event or call handled
    out,                  \* the last line the history manager printed
    ret,                  \* the value the last call returned
    buttons,              \* is the left pointer button down
    current_tool, previous_tool,
    is_space_held, is_z_held,
    is_drawing, is_panning, is_scrub_zooming, is_moving_selection,
    last_point,
    selection_rect, drag_start, lasso_path,
    floating_pixmap, floating_pos,
    layers,               \* root, gesso: the pixmaps; studio: the Layer records
    current_layer_index,  \* active_layer_index in the studio
    undo_stack, redo_stack,
    temp_layer_copy, stroke_rect,
    brush_size, brush_color, current_brush_tip, dist_to_next_dot,
    jitter_scatter,       \* engine.jitter_scatter in hundredths
    canvas_undo_stack, pre_stroke_full_image,   \* gesso: Canvas.undo_stack
    drawing, panning, is_selecting, is_eraser,  \* studio
    selection_path, lasso_points, transform_start_pos, last_canvas_pos,
    fill,                 \* the flood fill that is running: the locals of
                          \* flood_fill (seed, queue, visited, image, colours);
                          \* None when no fill is running
    snaps,                \* history variable: the layers after each recorded
                          \* drawing operation, oldest first
    cursor,               \* history variable: the one the layers should show
                          \* is snaps[cursor + 1]
    pre                   \* history variable: while a paint stroke is being
                          \* drawn, the layers as they were at pointer-down

envVars == <<program, event, out, ret, buttons>>
toolVars == <<current_tool, previous_tool>>
keyVars == <<is_space_held, is_z_held>>
modeVars == <<is_drawing, is_panning, is_scrub_zooming, is_moving_selection>>
selVars == <<selection_rect, drag_start, lasso_path>>
floatVars == <<floating_pixmap, floating_pos>>
layerVars == <<layers, current_layer_index>>
histVars == <<undo_stack, redo_stack>>
strokeVars == <<temp_layer_copy, stroke_rect, last_point>>
brushVars == <<brush_size, brush_color, current_brush_tip, dist_to_next_dot,
              jitter_scatter>>
gessoVars == <<canvas_undo_stack, pre_stroke_full_image>>
studioVars == <<drawing, panning, is_selecting, is_eraser, selection_path,
                lasso_points, transform_start_pos, last_canvas_pos>>

fillVars == <<fill>>
traceVars == <<snaps, cursor, pre>>

vars == <<envVars, toolVars, keyVars, modeVars, selVars, floatVars, layerVars,
          histVars, strokeVars, brushVars, gessoVars, studioVars, fillVars,
          traceVars>>

\* Python indexing of a list: 0-based, negative indices count from the end.
PyAt(list, i) == IF i < 0 THEN list[Len(list) + i + 1] ELSE list[i + 1]
PyIndexOK(list, i) == -Len(list) <= i /\ i < Len(list)
PySet(list, i, v) ==
    IF i < 0 THEN [list EXCEPT ![Len(list) + i + 1] = v] ELSE [list EXCEPT ![i + 1] = v]
\* del list[i]
PyDel(list, i) ==
    LET k == IF i < 0 THEN Len(list) + i + 1 ELSE i + 1
    IN  SubSeq(list, 1, k - 1) \o SubSeq(list, k + 1, Len(list))

\* The state as one record: the handlers below are functions from the state
\* before an event to the state after it.
Cur ==
    [program |-> program, event |-> event, out |-> out, ret |-> ret,
     buttons |-> buttons, current_tool |-> current_tool,
     previous_tool |-> previous_tool, is_space_held |-> is_space_held,
     is_z_held |-> is_z_held, is_drawing |-> is_drawing,
     is_panning |-> is_panning, is_scrub_zooming |-> is_scrub_zooming,
     is_moving_selection |-> is_moving_selection, last_point |-> last_point,
     selection_rect |-> selection_rect, drag_start |-> drag_start,
     lasso_path |-> lasso_path, floating_pixmap |-> floating_pixmap,
     floating_pos |-> floating_pos, layers |-> layers,
     current_layer_index |-> current_layer_index, undo_stack |-> undo_stack,
     redo_stack |-> redo_stack, temp_layer_copy |-> temp_layer_copy,
     stroke_rect |-> stroke_rect, brush_size |-> brush_size,
     brush_color |-> brush_color, current_brush_tip |-> current_brush_tip,
     dist_to_next_dot |-> dist_to_next_dot, jitter_scatter |-> jitter_scatter,
     canvas_undo_stack |-> canvas_undo_stack,
     pre_stroke_full_image |-> pre_stroke_full_image, drawing |-> drawing,
     panning |-> panning, is_selecting |-> is_selecting, is_eraser |-> is_eraser,
     selection_path |-> selection_path, lasso_points |-> lasso_points,
     transform_start_pos |-> transform_start_pos,
     last_canvas_pos |-> last_canvas_pos, fill |-> fill]

\* The next state is the record s.
Becomes(s) ==
    /\ program' = s.program /\ event' = s.event /\ out' = s.out /\ ret' = s.ret
    /\ buttons' = s.buttons /\ current_tool' = s.current_tool
    /\ previous_tool' = s.previous_tool /\ is_space_held' = s.is_space_held
    /\ is_z_held' = s.is_z_held /\ is_drawing' = s.is_drawing
    /\ is_panning' = s.is_panning /\ is_scrub_zooming' = s.is_scrub_zooming
    /\ is_moving_selection' = s.is_moving_selection /\ last_point' = s.last_point
    /\ selection_rect' = s.selection_rect /\ drag_start' = s.drag_start
    /\ lasso_path' = s.lasso_path /\ floating_pixmap' = s.floating_pixmap
    /\ floating_pos' = s.floating_pos /\ layers' = s.layers
    /\ current_layer_index' = s.current_layer_index /\ undo_stack' = s.undo_stack
    /\ redo_stack' = s.redo_stack /\ temp_layer_copy' = s.temp_layer_copy
    /\ stroke_rect' = s.stroke_rect /\ brush_size' = s.brush_size
    /\ brush_color' = s.brush_color /\ current_brush_tip' = s.current_brush_tip
    /\ dist_to_next_dot' = s.dist_to_next_dot /\ jitter_scatter' = s.jitter_scatter
    /\ canvas_undo_stack' = s.canvas_undo_stack
    /\ pre_stroke_full_image' = s.pre_stroke_full_image /\ drawing' = s.drawing
    /\ panning' = s.panning /\ is_selecting' = s.is_selecting
    /\ is_eraser' = s.is_eraser /\ selection_path' = s.selection_path
    /\ lasso_points' = s.lasso_points
    /\ transform_start_pos' = s.transform_start_pos
    /\ last_canvas_pos' = s.last_canvas_pos /\ fill' = s.fill

\* The state is the record s (for Init).
StateIs(s) ==
    /\ program = s.program /\ event = s.event /\ out = s.out /\ ret = s.ret
    /\ buttons = s.buttons /\ current_tool = s.current_tool
    /\ previous_tool = s.previous_tool /\ is_space_held = s.is_space_held
    /\ is_z_held = s.is_z_held /\ is_drawing = s.is_drawing
    /\ is_panning = s.is_panning /\ is_scrub_zooming = s.is_scrub_zooming
    /\ is_moving_selection = s.is_moving_selection /\ last_point = s.last_point
    /\ selection_rect = s.selection_rect /\ drag_start = s.drag_start
    /\ lasso_path = s.lasso_path /\ floating_pixmap = s.floating_pixmap
    /\ floating_pos = s.floating_pos /\ layers = s.layers
    /\ current_layer_index = s.current_layer_index /\ undo_stack = s.undo_stack
    /\ redo_stack = s.redo_stack /\ temp_layer_copy = s.temp_layer_copy
    /\ stroke_rect = s.stroke_rect /\ brush_size = s.brush_size
    /\ brush_color = s.brush_color /\ current_brush_tip = s.current_brush_tip
    /\ dist_to_next_dot = s.dist_to_next_dot /\ jitter_scatter = s.jitter_scatter
    /\ canvas_undo_stack = s.canvas_undo_stack
    /\ pre_stroke_full_image = s.pre_stroke_full_image /\ drawing = s.drawing
    /\ panning = s.panning /\ is_selecting = s.is_selecting
    /\ is_eraser = s.is_eraser /\ selection_path = s.selection_path
    /\ lasso_points = s.lasso_points
    /\ transform_start_pos = s.transform_start_pos
    /\ last_canvas_pos = s.last_canvas_pos /\ fill = s.fill

\* The state after the step, as a record (for action properties).
Nxt == Cur'

\* -------------------------------------------- HistoryManager (patch based)
\* HistoryState: layer_index, rect, before, after.
HistoryState(layer_idx, rect, before, after) ==
    [layer_index |-> layer_idx, rect |-> rect, before |-> before, after |-> after]

\* push_state without the trim of the undo stack.
push_state_untrimmed(s, layer_idx, rect, before, after) ==
    [s EXCEPT !.undo_stack = Append(s.undo_stack, HistoryState(layer_idx, rect, before, after)),
              !.redo_stack = <<>>,
              !.out = "History Saved."]

\* push_state without the redo_stack.clear().
push_state_keeping_redo(s, layer_idx, rect, before, after) ==
    LET appended == Append(s.undo_stack, HistoryState(layer_idx, rect, before, after))
    IN  [s EXCEPT !.undo_stack = IF Len(appended) > max_history
                                 THEN Tail(appended) ELSE appended,
                  !.out = "History Saved."]

\* push_state: append, clear the redo stack, drop the oldest entry when the
\* undo stack grew past max_history.
push_state(s, layer_idx, rect, before, after) ==
    LET appended == Append(s.undo_stack, HistoryState(layer_idx, rect, before, after))
    IN  [s EXCEPT !.undo_stack = IF Len(appended) > max_history
                                 THEN Tail(appended) ELSE appended,
                  !.redo_stack = <<>>,
                  !.out = "History Saved."]

\* _apply_patch without CompositionMode_Source: the patch is drawn over the
\* pixels that are there.
apply_patch_over(s, layer_idx, rect, patch) ==
    IF 0 <= layer_idx /\ layer_idx < Len(s.layers)
    THEN IF patch = None
         THEN [s EXCEPT !.out = "TypeError"]
         ELSE [s EXCEPT !.layers = PySet(s.layers, layer_idx,
                           DrawOver(PyAt(s.layers, layer_idx), TopLeft(rect), patch))]
    ELSE s

\* _apply_patch: the patch replaces the pixels at rect of the layer now at
\* layer_idx; nothing happens when no layer has that index.  Drawing a patch
\* that is None raises a TypeError.
apply_patch(s, layer_idx, rect, patch) ==
    IF 0 <= layer_idx /\ layer_idx < Len(s.layers)
    THEN IF patch = None
         THEN [s EXCEPT !.out = "TypeError"]
         ELSE [s EXCEPT !.layers = PySet(s.layers, layer_idx,
                           DrawSource(PyAt(s.layers, layer_idx), TopLeft(rect), patch))]
    ELSE s

\* The prints that follow _apply_patch are not reached when it raised.
Printed(s, line) == IF s.out = "TypeError" THEN s ELSE [s EXCEPT !.out = line]

\* undo without the guard for an empty stack: pop() on an empty list raises.
undo_unchecked(s) ==
    IF s.undo_stack = <<>>
    THEN [s EXCEPT !.out = "IndexError"]
    ELSE LET state == s.undo_stack[Len(s.undo_stack)]
             popped == [s EXCEPT !.undo_stack = SubSeq(s.undo_stack, 1, Len(s.undo_stack) - 1),
                                 !.redo_stack = Append(s.redo_stack, state)]
         IN  Printed(apply_patch(popped, state.layer_index, state.rect, state.before),
                     "Undid Action.")

\* undo: the last entry moves to the redo stack and its `before` is applied.
undo(s) ==
    IF s.undo_stack = <<>>
    THEN [s EXCEPT !.out = "Nothing to Undo."]
    ELSE LET state == s.undo_stack[Len(s.undo_stack)]
             popped == [s EXCEPT !.undo_stack = SubSeq(s.undo_stack, 1, Len(s.undo_stack) - 1),
                                 !.redo_stack = Append(s.redo_stack, state)]
         IN  Printed(apply_patch(popped, state.layer_index, state.rect, state.before),
                     "Undid Action.")

\* redo: the mirror image, applying `after`.
redo(s) ==
    IF s.redo_stack = <<>>
    THEN [s EXCEPT !.out = "Nothing to Redo."]
    ELSE LET state == s.redo_stack[Len(s.redo_stack)]
             popped == [s EXCEPT !.redo_stack = SubSeq(s.redo_stack, 1, Len(s.redo_stack) - 1),
                                 !.undo_stack = Append(s.undo_stack, state)]
         IN  Printed(apply_patch(popped, state.layer_index, state.rect, state.after),
                     "Redid Action.")

\* ------------------------------------------------ Canvas (root): helpers
\* The active_layer property: layers[current_layer_index].
active_layer(s) == PyAt(s.layers, s.current_layer_index)
SetActive(s, pm) == [s EXCEPT !.layers = PySet(s.layers, s.current_layer_index, pm)]

\* Truth values of PyQt objects: a QRect is true when valid, a QPoint when
\* not (0, 0), a QPixmap when not null.
RectTruthy(r) == r # None /\ RectIsValid(r)
PointTruthy(p) == p # NoPoint /\ p # Point(0, 0)
PixmapTruthy(pm) == pm # None /\ pm.w > 0 /\ pm.h > 0

\* Canvas.anchor_selection: the floating pixels are drawn onto the active
\* layer at floating_pos and the floating pixmap is dropped.
anchor_selection(s) ==
    IF PixmapTruthy(s.floating_pixmap)
    THEN [SetActive(s, DrawOver(active_layer(s), s.floating_pos, s.floating_pixmap))
            EXCEPT !.floating_pixmap = None]
    ELSE s

\* Canvas.clear_selection.
clear_selection(s) ==
    [s EXCEPT !.selection_rect = None, !.drag_start = NoPoint, !.lasso_path = <<>>,
              !.floating_pixmap = None, !.floating_pos = Point(0, 0)]

\* The pixels QPainter.drawRect(r) touches with the default pen and no
\* brush: the one pixel wide frame from the top left of r to one past its
\* bottom right.
OnFrame(r, p) ==
    /\ r.x1 <= PX(p) /\ PX(p) <= r.x2 + 1 /\ r.y1 <= PY(p) /\ PY(p) <= r.y2 + 1
    /\ (PX(p) = r.x1 \/ PX(p) = r.x2 + 1 \/ PY(p) = r.y1 \/ PY(p) = r.y2 + 1)

\* Canvas.lift_selection: the selected pixels are copied into the floating
\* pixmap; drawRect in CompositionMode_Clear clears the frame of the
\* rectangle on the layer.
lift_selection(s) ==
    IF ~RectTruthy(s.selection_rect) THEN s
    ELSE LET pm == active_layer(s)
         IN  [SetActive(s, [pm EXCEPT !.px =
                              [p \in DOMAIN pm.px |->
                                 IF OnFrame(s.selection_rect, p) THEN "T" ELSE pm.px[p]]])
                EXCEPT !.floating_pixmap = Copy(pm, s.selection_rect),
                       !.floating_pos = TopLeft(s.selection_rect)]

\* Canvas.set_tool: leaving MOVE with floating pixels anchors them.
set_tool(s, tool) ==
    [(IF s.current_tool = "MOVE" /\ PixmapTruthy(s.floating_pixmap)
      THEN anchor_selection(s) ELSE s) EXCEPT !.current_tool = tool]

\* compose_layers: the display shows, at each pixel, the topmost layer that
\* is not transparent there (all layers visible and opaque).
RECURSIVE TopColor(_, _, _)
TopColor(ls, i, p) ==
    IF i = 0 THEN "T"
    ELSE IF ls[i].px[p] # "T" THEN ls[i].px[p] ELSE TopColor(ls, i - 1, p)
display_pixmap(s) == [p \in PixOf(CanvasW, CanvasH) |-> TopColor(s.layers, Len(s.layers), p)]

\* Canvas.color_picker: the colour under the pointer becomes the brush
\* colour; the brush tip is not rebuilt.
color_picker(s, pos) ==
    IF ~(0 <= PX(pos) /\ PX(pos) < CanvasW /\ 0 <= PY(pos) /\ PY(pos) < CanvasH) THEN s
    ELSE IF display_pixmap(s)[pos] # "T"
         THEN [s EXCEPT !.brush_color = display_pixmap(s)[pos]]
         ELSE s

\* Canvas.set_brush_size (clamped) and set_brush_color: both rebuild the tip.
set_brush_size(s, size) ==
    LET clamped == Max(1, Min(size, MaxBrushSize))
    IN  [s EXCEPT !.brush_size = clamped,
                  !.current_brush_tip = [size |-> clamped, color |-> s.brush_color]]
set_brush_color(s, color) ==
    [s EXCEPT !.brush_color = color,
              !.current_brush_tip = [size |-> s.brush_size, color |-> color]]
\* Canvas.set_jitter_scatter, of the root and of Gesso; v in hundredths.
set_jitter_scatter(s, v) == [s EXCEPT !.jitter_scatter = v]

\* Layer management.
add_new_layer(s) ==
    [s EXCEPT !.layers = Append(s.layers, Pixmap(s.layers[1].w, s.layers[1].h, "T")),
              !.current_layer_index = Len(s.layers)]
\* delete_active_layer with the guard off by one.
delete_last_layer(s) ==
    IF Len(s.layers) < 1 THEN [s EXCEPT !.ret = "False"]
    ELSE LET rest == PyDel(s.layers, s.current_layer_index)
         IN  [s EXCEPT !.layers = rest,
                       !.current_layer_index =
                           IF s.current_layer_index >= Len(rest)
                           THEN Len(rest) - 1 ELSE s.current_layer_index,
                       !.ret = "True"]
delete_active_layer(s) ==
    IF Len(s.layers) <= 1 THEN [s EXCEPT !.ret = "False"]
    ELSE LET rest == PyDel(s.layers, s.current_layer_index)
         IN  [s EXCEPT !.layers = rest,
                       !.current_layer_index =
                           IF s.current_layer_index >= Len(rest)
                           THEN Len(rest) - 1 ELSE s.current_layer_index,
                       !.ret = "True"]
set_active_layer(s, index) ==
    IF 0 <= index /\ index < Len(s.layers)
    THEN [s EXCEPT !.current_layer_index = index] ELSE s

\* ------------------------------------------- Canvas (root): the handlers
PaintTools == {"BRUSH", "ERASER"}

\* The engine call of handle_press / handle_move: draw_line on the active
\* layer, from `start` to `end`, with the tip built by update_brush_tip.
Stroke(s, start, end) ==
    LET d == draw_line(active_layer(s), start, end, s.dist_to_next_dot,
                       s.brush_size, s.current_brush_tip.color,
                       SelectionClip(s.selection_rect, s.lasso_path))
    IN  [SetActive(s, d.pm) EXCEPT !.dist_to_next_dot = d.dist]

\* Canvas.handle_press.
handle_press(s, pos) ==
    IF s.is_space_held \/ s.current_tool = "PAN" THEN [s EXCEPT !.is_panning = TRUE]
    ELSE IF s.is_z_held \/ s.current_tool = "ZOOM" THEN [s EXCEPT !.is_scrub_zooming = TRUE]
    ELSE LET t == [s EXCEPT !.last_point = pos, !.dist_to_next_dot = 0]
             margin == max_reach(s.brush_size, s.jitter_scatter)
         IN  CASE t.current_tool = "EYEDROPPER" -> color_picker(t, pos)
               [] t.current_tool = "FILL" ->
                    LET rect == PixRect(active_layer(t))
                        before == Copy(active_layer(t), rect)
                        filled == SetActive(t, flood_fill(active_layer(t), pos, t.brush_color))
                        after == Copy(active_layer(filled), rect)
                    IN  push_state(filled, t.current_layer_index, rect, before, after)
               [] t.current_tool = "MARQUEE" ->
                    [anchor_selection(t) EXCEPT !.selection_rect = QRect(PX(pos), PY(pos), 0, 0),
                                                !.drag_start = pos,
                                                !.is_drawing = FALSE]
               [] t.current_tool = "LASSO" ->
                    [anchor_selection(t) EXCEPT !.selection_rect = None,
                                                !.lasso_path = <<pos>>,
                                                !.is_drawing = FALSE]
               [] t.current_tool \in PaintTools ->
                    Stroke([t EXCEPT !.is_drawing = TRUE,
                                     !.temp_layer_copy = active_layer(t),
                                     !.stroke_rect = QRect(PX(pos) - margin, PY(pos) - margin,
                                                           margin * 2, margin * 2)],
                           pos, pos)
               [] OTHER -> t

\* Canvas.handle_move; `left` says whether the left button is down.
handle_move(s, pos, left) ==
    IF s.is_panning THEN s
    ELSE IF ~left THEN s
    ELSE LET margin == max_reach(s.brush_size, s.jitter_scatter)
             r == Adjusted(Normalized(QRectPP(s.last_point, pos)),
                           -margin, -margin, margin, margin)
             branch ==
                CASE s.current_tool \in PaintTools ->
                       IF s.is_drawing
                       THEN [Stroke(s, s.last_point, pos)
                               EXCEPT !.stroke_rect = United(s.stroke_rect, r)]
                       ELSE s
                  [] s.current_tool = "MARQUEE" ->
                       IF PointTruthy(s.drag_start)
                       THEN [s EXCEPT !.selection_rect = Normalized(QRectPP(s.drag_start, pos))]
                       ELSE s
                  [] s.current_tool = "LASSO" ->
                       [s EXCEPT !.lasso_path = Append(s.lasso_path, pos)]
                  [] OTHER -> s
         IN  [branch EXCEPT !.last_point = pos]

\* Canvas.handle_release; `left` says whether the released button is the
\* left one.
handle_release(s, left) ==
    LET a == [s EXCEPT !.is_drawing = FALSE,
                       !.lasso_path = IF s.current_tool = "LASSO" /\ Len(s.lasso_path) <= 2
                                      THEN <<>> ELSE s.lasso_path]
        final_rect == Intersected(a.stroke_rect, PixRect(active_layer(a)))
    IN  IF a.is_panning THEN [a EXCEPT !.is_panning = FALSE]
        ELSE IF a.is_scrub_zooming THEN [a EXCEPT !.is_scrub_zooming = FALSE]
        ELSE IF ~left THEN a
        ELSE IF a.current_tool \in PaintTools /\ PixmapTruthy(a.temp_layer_copy)
             THEN [(IF ~RectIsEmpty(final_rect)
                    THEN push_state(a, a.current_layer_index, final_rect,
                                    Copy(a.temp_layer_copy, final_rect),
                                    Copy(active_layer(a), final_rect))
                    ELSE a) EXCEPT !.temp_layer_copy = None]
             ELSE a

\* Canvas.mousePressEvent: a press inside the selection rectangle starts
\* moving the selection (lifting it first); any other press goes to
\* handle_press.  (The branch on current_tool == "marquee" compares a
\* ToolType with a string and is never taken.)
mousePressEvent(s, pos) ==
    IF RectTruthy(s.selection_rect) /\ RectContains(s.selection_rect, pos)
    THEN LET m == [s EXCEPT !.is_moving_selection = TRUE]
         IN  IF ~PixmapTruthy(m.floating_pixmap) THEN lift_selection(m) ELSE m
    ELSE handle_press(s, pos)

\* Canvas.keyPressEvent: the key chain, then the undo / redo chord or the
\* Return key.
keyPressEvent(s, key, ctrl, shift) ==
    LET a == IF key = "Alt" /\ s.current_tool # "EYEDROPPER"
             THEN set_tool([s EXCEPT !.previous_tool = s.current_tool], "EYEDROPPER")
             ELSE IF key = "Escape" THEN clear_selection(s)
             ELSE IF key = "Space" THEN [s EXCEPT !.is_space_held = TRUE]
             ELSE IF key = "Z" THEN [s EXCEPT !.is_z_held = TRUE]
             ELSE s
    IN  IF ctrl
        THEN IF key = "Z" THEN (IF shift THEN redo(a) ELSE undo(a))
             ELSE IF key = "Y" THEN redo(a)
             ELSE a
        ELSE IF key = "Return" /\ a.current_tool = "MOVE" THEN anchor_selection(a)
        ELSE a

\* Canvas.keyReleaseEvent.
keyReleaseEvent(s, key) ==
    IF key = "Alt" /\ s.previous_tool # Unset
    THEN [set_tool(s, s.previous_tool) EXCEPT !.previous_tool = Unset]
    ELSE IF key = "Space" THEN [s EXCEPT !.is_space_held = FALSE]
    ELSE IF key = "Z" THEN [s EXCEPT !.is_z_held = FALSE]
    ELSE s

\* ------------------------------------------------------- Canvas (Gesso)
\* DrawingEngine.flood_fill of Gesso: after the bounds and same-colour
\* checks the whole layer is filled.
gesso_flood_fill(pm, start_pos, new_color) ==
    IF start_pos \notin DOMAIN pm.px THEN pm
    ELSE IF pm.px[start_pos] = new_color THEN pm
    ELSE [pm EXCEPT !.px = [p \in DOMAIN pm.px |-> new_color]]

\* DrawingEngine.draw_line of Gesso: the eraser rubs out (DestinationOut),
\* and no selection clips the stroke.
gesso_draw_line(pm, start, end, dist, size, color, eraser) ==
    draw_line(pm, start, end, dist, size, IF eraser THEN "T" ELSE color, NoClip)

gesso_Stroke(s, start, end) ==
    LET d == gesso_draw_line(active_layer(s), start, end, s.dist_to_next_dot,
                             s.brush_size, s.current_brush_tip.color,
                             s.current_tool = "ERASER")
    IN  [SetActive(s, d.pm) EXCEPT !.dist_to_next_dot = d.dist]

\* Canvas.set_brush_size of Gesso: no clamp.
gesso_set_brush_size(s, size) ==
    [s EXCEPT !.brush_size = size,
              !.current_brush_tip = [size |-> size, color |-> s.brush_color]]

\* Canvas.handle_press of Gesso.  The fill pushes its history entry before
\* it fills, with no `after` patch.
gesso_handle_press(s, pos) ==
    IF s.is_space_held \/ s.current_tool = "PAN" THEN [s EXCEPT !.is_panning = TRUE]
    ELSE IF s.is_z_held \/ s.current_tool = "ZOOM" THEN [s EXCEPT !.is_scrub_zooming = TRUE]
    ELSE LET t == [s EXCEPT !.last_point = pos, !.dist_to_next_dot = 0]
         IN  CASE t.current_tool = "EYEDROPPER" -> color_picker(t, pos)
               [] t.current_tool = "FILL" ->
                    LET pushed == push_state(t, t.current_layer_index,
                                             PixRect(active_layer(t)),
                                             Copy(active_layer(t), PixRect(active_layer(t))),
                                             None)
                    IN  SetActive(pushed, gesso_flood_fill(active_layer(pushed), pos,
                                                           pushed.brush_color))
               [] t.current_tool = "MARQUEE" ->
                    [anchor_selection(t) EXCEPT !.selection_rect = QRectPP(pos, pos),
                                                !.drag_start = pos,
                                                !.lasso_path = <<>>]
               [] t.current_tool = "LASSO" ->
                    [anchor_selection(t) EXCEPT !.selection_rect = None,
                                                !.lasso_path = <<pos>>]
               [] t.current_tool \in PaintTools ->
                    gesso_Stroke([t EXCEPT !.is_drawing = TRUE,
                                           !.temp_layer_copy = active_layer(t),
                                           !.stroke_rect = QRectPP(pos, pos)],
                                 pos, pos)
               [] OTHER -> [t EXCEPT !.is_drawing = TRUE]

\* Canvas.handle_move of Gesso: the stroke rectangle grows by a fixed margin
\* of 50.
gesso_handle_move(s, pos, left) ==
    IF s.is_panning \/ s.is_scrub_zooming THEN s
    ELSE IF ~left THEN s
    ELSE LET r == Adjusted(Normalized(QRectPP(s.last_point, pos)), -50, -50, 50, 50)
             branch ==
                IF s.is_drawing /\ s.current_tool \in PaintTools
                THEN [gesso_Stroke(s, s.last_point, pos)
                        EXCEPT !.stroke_rect = United(s.stroke_rect, r)]
                ELSE IF s.current_tool = "MARQUEE" /\ PointTruthy(s.drag_start)
                THEN [s EXCEPT !.selection_rect = Normalized(QRectPP(s.drag_start, pos))]
                ELSE IF s.current_tool = "LASSO"
                THEN [s EXCEPT !.lasso_path = Append(s.lasso_path, pos)]
                ELSE IF s.current_tool = "MOVE" /\ PixmapTruthy(s.floating_pixmap)
                THEN [s EXCEPT !.floating_pos =
                          Point(PX(s.floating_pos) + PX(pos) - PX(s.last_point),
                                PY(s.floating_pos) + PY(pos) - PY(s.last_point))]
                ELSE s
         IN  [branch EXCEPT !.last_point = pos]

\* Canvas.handle_release of Gesso.
gesso_handle_release(s, left) ==
    LET final_rect == Intersected(s.stroke_rect, PixRect(active_layer(s)))
    IN  IF s.is_panning THEN [s EXCEPT !.is_panning = FALSE]
        ELSE IF s.is_scrub_zooming THEN [s EXCEPT !.is_scrub_zooming = FALSE]
        ELSE IF ~left THEN s
        ELSE LET a == [s EXCEPT !.is_drawing = FALSE]
             IN  IF a.current_tool \in PaintTools /\ PixmapTruthy(a.temp_layer_copy)
                 THEN [(IF ~RectIsEmpty(final_rect)
                        THEN push_state(a, a.current_layer_index, final_rect,
                                        Copy(a.temp_layer_copy, final_rect),
                                        Copy(active_layer(a), final_rect))
                        ELSE a) EXCEPT !.temp_layer_copy = None]
                 ELSE a

\* Canvas.mousePressEvent of Gesso: the full image of the active layer is
\* kept aside and is_drawing is set before handle_press runs.
gesso_mousePressEvent(s, pos) ==
    gesso_handle_press([s EXCEPT !.pre_stroke_full_image = active_layer(s),
                                 !.is_drawing = TRUE], pos)

\* Canvas.mouseReleaseEvent of Gesso: after handle_release the full image
\* goes onto Canvas.undo_stack, which keeps the last legacy_limit images.
gesso_mouseReleaseEvent(s, left) ==
    IF ~s.is_drawing THEN s
    ELSE LET r == gesso_handle_release([s EXCEPT !.is_drawing = FALSE], left)
             pushed == Append(r.canvas_undo_stack, r.pre_stroke_full_image)
         IN  [r EXCEPT !.canvas_undo_stack =
                 IF Len(pushed) > legacy_limit THEN Tail(pushed) ELSE pushed]

\* Canvas.keyPressEvent of Gesso: as the root's, without the Escape key.
gesso_keyPressEvent(s, key, ctrl, shift) ==
    IF key = "Escape" THEN s ELSE keyPressEvent(s, key, ctrl, shift)

\* ------------------------------------- HistoryManager (snapshots, studio)
\* A deque without maxlen.
append_unbounded(dq, x) == Append(dq, x)

\* deque(maxlen = limit).append: a full deque drops its oldest element.
DequeAppend(dq, x) == IF Len(dq) >= limit THEN Append(Tail(dq), x) ELSE Append(dq, x)

\* save_state: a copy of the image goes on the undo stack with its layer
\* index; the redo stack is cleared.
save_state(s, layer_index, image) ==
    [s EXCEPT !.undo_stack = DequeAppend(s.undo_stack,
                                         [layer_index |-> layer_index, image |-> image]),
              !.redo_stack = <<>>]

\* drawImage(0, 0, image) in CompositionMode_Source onto layers[layer_index].
Restore(s, layer_index, image) ==
    LET layer == PyAt(s.layers, layer_index)
    IN  [s EXCEPT !.layers = PySet(s.layers, layer_index,
                      [layer EXCEPT !.image = DrawSource(layer.image, Point(0, 0), image)])]

\* undo(layers): the popped snapshot is restored and the current image goes
\* on the redo stack; an entry whose index is past the list is dropped.
\* Returns the layer index, or None.
studio_undo(s) ==
    IF s.undo_stack = <<>> THEN [s EXCEPT !.ret = Unset]
    ELSE LET e == s.undo_stack[Len(s.undo_stack)]
             popped == [s EXCEPT !.undo_stack = SubSeq(s.undo_stack, 1, Len(s.undo_stack) - 1)]
         IN  IF e.layer_index < Len(s.layers)
             THEN IF ~PyIndexOK(s.layers, e.layer_index)
                  THEN [popped EXCEPT !.out = "IndexError"]
                  ELSE [Restore(popped, e.layer_index, e.image)
                          EXCEPT !.redo_stack =
                                     DequeAppend(s.redo_stack,
                                        [layer_index |-> e.layer_index,
                                         image |-> PyAt(s.layers, e.layer_index).image]),
                                 !.ret = ToString(e.layer_index)]
             ELSE [popped EXCEPT !.ret = Unset]

\* redo(layers): the mirror image.
studio_redo(s) ==
    IF s.redo_stack = <<>> THEN [s EXCEPT !.ret = Unset]
    ELSE LET e == s.redo_stack[Len(s.redo_stack)]
             popped == [s EXCEPT !.redo_stack = SubSeq(s.redo_stack, 1, Len(s.redo_stack) - 1)]
         IN  IF e.layer_index < Len(s.layers)
             THEN IF ~PyIndexOK(s.layers, e.layer_index)
                  THEN [popped EXCEPT !.out = "IndexError"]
                  ELSE [Restore(popped, e.layer_index, e.image)
                          EXCEPT !.undo_stack =
                                     DequeAppend(s.undo_stack,
                                        [layer_index |-> e.layer_index,
                                         image |-> PyAt(s.layers, e.layer_index).image]),
                                 !.ret = ToString(e.layer_index)]
             ELSE [popped EXCEPT !.ret = Unset]

\* -------------------------------------------------------- Canvas (studio)
\* A Layer of the studio: its image and its offset.  Rotation and scale stay
\* 0 and 1 (only translating drags are modelled).  is_floating is unset where
\* the attribute was never set: Layer.__init__ does not set it.
Layer(w, h) == [image |-> Pixmap(w, h, "T"), x |-> 0, y |-> 0, is_floating |-> Unset]

TransformTools == {"move", "rotate", "scale"}
StudioPaintTools == {"brush", "eraser"}
ActiveOK(s) == 0 <= s.current_layer_index /\ s.current_layer_index < Len(s.layers)

\* Is the centre of pixel p within size / 2 of the segment a -> b?  All
\* coordinates are doubled.
LineCovers(a, b, size, p) ==
    LET ax == 2 * PX(a)
        ay == 2 * PY(a)
        dx == 2 * PX(b) - ax
        dy == 2 * PY(b) - ay
        cx == 2 * PX(p) + 1 - ax
        cy == 2 * PY(p) + 1 - ay
        dd == dx * dx + dy * dy
        t == cx * dx + cy * dy
        cross == cx * dy - cy * dx
    IN  IF dd = 0 \/ t <= 0 THEN cx * cx + cy * cy <= size * size
        ELSE IF t >= dd THEN (cx - dx) * (cx - dx) + (cy - dy) * (cy - dy) <= size * size
        ELSE cross * cross <= size * size * dd

Shifted(path, dx, dy) == [i \in DOMAIN path |-> Point(PX(path[i]) - dx, PY(path[i]) - dy)]

\* Canvas.draw_stroke: a round pen line, brush_size wide, from the last
\* position to the current one in the layer's own coordinates, clipped to the
\* selection; the eraser clears.
studio_draw_stroke(s, current_point) ==
    IF ~ActiveOK(s) THEN s
    ELSE LET layer == PyAt(s.layers, s.current_layer_index)
             a == Point(PX(s.last_canvas_pos) - layer.x, PY(s.last_canvas_pos) - layer.y)
             b == Point(PX(current_point) - layer.x, PY(current_point) - layer.y)
             clip == IF s.selection_path = <<>> THEN NoClip
                     ELSE PolyClip(Shifted(s.selection_path, layer.x, layer.y))
             ink == IF s.is_eraser THEN "T" ELSE s.brush_color
             img == [layer.image EXCEPT !.px =
                        [p \in DOMAIN layer.image.px |->
                           IF LineCovers(a, b, s.brush_size, p) /\ InClip(clip, p)
                           THEN ink ELSE layer.image.px[p]]]
         IN  [s EXCEPT !.layers = PySet(s.layers, s.current_layer_index,
                                        [layer EXCEPT !.image = img]),
                       !.last_canvas_pos = current_point]

\* BucketTool of logic/tools.  colors_match compares the red, green and blue
\* channels within the tolerance and not the alpha: transparent and black
\* match.
tolerance == 32
Rgb(color) ==
    CASE color = "W" -> <<255, 255, 255>>
      [] color = "R" -> <<255, 0, 0>>
      [] OTHER -> <<0, 0, 0>>
Abs(n) == IF n < 0 THEN -n ELSE n
colors_match(color1, color2) ==
    IF tolerance = 0 THEN color1 = color2
    ELSE Abs(Rgb(color1)[1] - Rgb(color2)[1]) + Abs(Rgb(color1)[2] - Rgb(color2)[2])
           + Abs(Rgb(color1)[3] - Rgb(color2)[3]) <= tolerance * 3

\* BucketTool.flood_fill: the scan-line fill colours the pixels 4-connected
\* to start_point through pixels that match the colour found there.
\* start_point is used as a position in the image as it is given.
bucket_flood_fill(image, start_point, fill_int) ==
    IF start_point \notin DOMAIN image.px THEN image
    ELSE IF image.px[start_point] = fill_int THEN image
    ELSE LET target == image.px[start_point]
             alike == [p \in DOMAIN image.px |->
                         IF colors_match(image.px[p], target) THEN target ELSE image.px[p]]
             filled == FloodLoop({start_point}, {}, alike, target)
         IN  [image EXCEPT !.px = [p \in DOMAIN image.px |->
                                     IF p \in filled THEN fill_int ELSE image.px[p]]]

\* BucketTool.mouse_press: saves the image of the active layer and fills it
\* from pos.
bucket_mouse_press(s, pos) ==
    IF ~ActiveOK(s) THEN s
    ELSE LET layer == PyAt(s.layers, s.current_layer_index)
             saved == save_state(s, s.current_layer_index, layer.image)
         IN  [saved EXCEPT !.layers =
                 PySet(s.layers, s.current_layer_index,
                       [layer EXCEPT !.image = bucket_flood_fill(layer.image, pos, s.brush_color)])]

\* ------------------------------------------- the fills, one pass at a time
\* The locals of DrawingEngine.flood_fill when its while loop is reached:
\* the queue holds the seed; it is empty when flood_fill returned before
\* the loop (seed outside the image, or of the new colour already).
FloodCall(pm, start_pos, new_color) ==
    LET inside == start_pos \in DOMAIN pm.px
    IN  [seed |-> start_pos, visited |-> {}, image |-> pm, new_color |-> new_color,
         target_color |-> IF inside THEN pm.px[start_pos] ELSE Unset,
         queue |-> IF inside /\ pm.px[start_pos] # new_color
                   THEN <<start_pos>> ELSE <<>>]

\* One pass of the while loop with the entries that are skipped left in the
\* queue.
flood_fill_step_no_pop(f) ==
    LET p == Head(f.queue)
    IN  IF p \in f.visited \/ p \notin DOMAIN f.image.px THEN f
        ELSE IF f.image.px[p] # f.target_color THEN f
        ELSE [f EXCEPT !.visited = @ \cup {p},
                       !.image.px[p] = f.new_color,
                       !.queue = Tail(f.queue)
                                    \o << Point(PX(p) + 1, PY(p)), Point(PX(p) - 1, PY(p)),
                                          Point(PX(p), PY(p) + 1), Point(PX(p), PY(p) - 1) >>]

\* One pass of the while loop of DrawingEngine.flood_fill: the first entry
\* leaves the queue; it is skipped when it was visited, lies outside or has
\* not the target colour, else it is filled and its four neighbours join the
\* queue.
flood_fill_step(f) ==
    LET p == Head(f.queue)
        rest == Tail(f.queue)
    IN  IF p \in f.visited \/ p \notin DOMAIN f.image.px THEN [f EXCEPT !.queue = rest]
        ELSE IF f.image.px[p] # f.target_color THEN [f EXCEPT !.queue = rest]
        ELSE [f EXCEPT !.visited = @ \cup {p},
                       !.image.px[p] = f.new_color,
                       !.queue = rest \o << Point(PX(p) + 1, PY(p)), Point(PX(p) - 1, PY(p)),
                                            Point(PX(p), PY(p) + 1), Point(PX(p), PY(p) - 1) >>]

\* The locals of BucketTool.flood_fill when its while loop is reached; the
\* stack is kept in `queue`, its top at the end.
BucketCall(image, start_point, fill_color) ==
    LET inside == start_point \in DOMAIN image.px
    IN  [seed |-> start_point, visited |-> {}, image |-> image, new_color |-> fill_color,
         target_color |-> IF inside THEN image.px[start_point] ELSE Unset,
         queue |-> IF inside /\ image.px[start_point] # fill_color
                   THEN <<start_point>> ELSE <<>>]

\* One pass of the while loop of BucketTool.flood_fill: the top of the stack
\* is popped; unless it is skipped, the run of matching pixels around it in
\* its row is filled and marked visited, and the matching pixels above and
\* below the run that were not visited are pushed.  The painter writes into
\* the image the loop reads.
bucket_fill_step(f) ==
    LET c == f.queue[Len(f.queue)]
        rest == SubSeq(f.queue, 1, Len(f.queue) - 1)
        Match(q) == colors_match(f.image.px[q], f.target_color)
        cy == PY(c)
        left_x == CHOOSE lx \in 0 .. PX(c) :
                     /\ \A x \in lx .. PX(c) - 1 : Match(Point(x, cy))
                     /\ lx = 0 \/ ~Match(Point(lx - 1, cy))
        right_x == CHOOSE rx \in PX(c) .. f.image.w - 1 :
                      /\ \A x \in PX(c) + 1 .. rx : Match(Point(x, cy))
                      /\ rx = f.image.w - 1 \/ ~Match(Point(rx + 1, cy))
        above_below == [k \in 1 .. 2 * (right_x - left_x + 1) |->
                          Point(left_x + (k - 1) \div 2,
                                IF k % 2 = 1 THEN cy - 1 ELSE cy + 1)]
        Pushed(q) == q \in DOMAIN f.image.px /\ Match(q) /\ q \notin f.visited
    IN  IF c \in f.visited \/ c \notin DOMAIN f.image.px THEN [f EXCEPT !.queue = rest]
        ELSE IF ~Match(c) THEN [f EXCEPT !.queue = rest]
        ELSE [f EXCEPT !.visited = @ \cup {Point(x, cy) : x \in left_x .. right_x},
                       !.image.px = [q \in DOMAIN f.image.px |->
                                       IF PY(q) = cy /\ PX(q) \in left_x .. right_x
                                       THEN f.new_color ELSE f.image.px[q]],
                       !.queue = rest \o SelectSeq(above_below, Pushed)]

\* Canvas.commit_transform: a layer that was moved is drawn onto the layer
\* at active_layer_index - 1 and deleted.  There is no check that a layer
\* lies below or that the layer is a floating one.
studio_commit_transform(s) ==
    IF ~ActiveOK(s) THEN s
    ELSE LET layer == PyAt(s.layers, s.current_layer_index)
             below == s.current_layer_index - 1
             target == PyAt(s.layers, below)
             saved == save_state(s, below, target.image)
             merged == [target EXCEPT !.image =
                           DrawOver(target.image, Point(layer.x, layer.y), layer.image)]
         IN  IF layer.x = 0 /\ layer.y = 0 THEN s
             ELSE [saved EXCEPT !.layers = PyDel(PySet(s.layers, below, merged),
                                                 s.current_layer_index),
                                !.current_layer_index = below]

\* ToolStation.set_tool: leaving the transform tools commits.
studio_set_tool(s, tool_name) ==
    [(IF s.current_tool \in TransformTools /\ tool_name \notin TransformTools
      THEN studio_commit_transform(s) ELSE s)
       EXCEPT !.current_tool = tool_name, !.is_eraser = (tool_name = "eraser")]

\* The bounding rectangle of the selection path, as boundingRect().toRect().
RECURSIVE Least(_, _, _)
Least(path, k, i) ==
    IF i > Len(path) THEN path[1][k]
    ELSE Min(path[i][k], Least(path, k, i + 1))
RECURSIVE Most(_, _, _)
Most(path, k, i) ==
    IF i > Len(path) THEN path[1][k]
    ELSE Max(path[i][k], Most(path, k, i + 1))
BoundingRect(path) ==
    QRect(Least(path, 1, 1), Least(path, 2, 1),
          Most(path, 1, 1) - Least(path, 1, 1), Most(path, 2, 1) - Least(path, 2, 1))

\* lift_selection_to_layer with the floating layer left at (0, 0): without
\* the assignment of crop_rect.x() and crop_rect.y() to the layer's offset.
lift_to_origin(s) ==
    IF ~ActiveOK(s) THEN [s EXCEPT !.ret = Unset]
    ELSE IF s.selection_path = <<>> THEN [s EXCEPT !.ret = "False"]
    ELSE LET crop_rect == BoundingRect(s.selection_path)
             source == PyAt(s.layers, s.current_layer_index)
             floating == [image |-> Copy(source.image, crop_rect),
                          x |-> 0, y |-> 0, is_floating |-> "True"]
             cut == [source EXCEPT !.image.px =
                        [p \in DOMAIN source.image.px |->
                           IF InPolygon(s.selection_path, p) THEN "T"
                           ELSE source.image.px[p]]]
         IN  IF RectIsEmpty(crop_rect) THEN [s EXCEPT !.ret = "False"]
             ELSE [s EXCEPT !.layers = Append(PySet(s.layers, s.current_layer_index, cut),
                                              floating),
                            !.current_layer_index = Len(s.layers),
                            !.selection_path = <<>>,
                            !.ret = "True"]

\* Canvas.lift_selection_to_layer: the selected pixels move to a new floating
\* layer of the size of the selection's bounding rectangle, on top of the
\* stack.  Returns True when a layer was lifted.
studio_lift_selection_to_layer(s) ==
    IF ~ActiveOK(s) THEN [s EXCEPT !.ret = Unset]
    ELSE IF s.selection_path = <<>> THEN [s EXCEPT !.ret = "False"]
    ELSE LET crop_rect == BoundingRect(s.selection_path)
             source == PyAt(s.layers, s.current_layer_index)
             floating == [image |-> Copy(source.image, crop_rect),
                          x |-> crop_rect.x1, y |-> crop_rect.y1, is_floating |-> "True"]
             cut == [source EXCEPT !.image.px =
                        [p \in DOMAIN source.image.px |->
                           IF InPolygon(s.selection_path, p) THEN "T"
                           ELSE source.image.px[p]]]
         IN  IF RectIsEmpty(crop_rect) THEN [s EXCEPT !.ret = "False"]
             ELSE [s EXCEPT !.layers = Append(PySet(s.layers, s.current_layer_index, cut),
                                              floating),
                            !.current_layer_index = Len(s.layers),
                            !.selection_path = <<>>,
                            !.ret = "True"]

\* Canvas.delete_active_layer, add_layer; LayerPanel.change_layer.
studio_delete_active_layer(s) ==
    IF Len(s.layers) <= 1 THEN [s EXCEPT !.ret = "False"]
    ELSE LET rest == PyDel(s.layers, s.current_layer_index)
         IN  [s EXCEPT !.layers = rest,
                       !.current_layer_index =
                           IF s.current_layer_index >= Len(rest)
                           THEN Len(rest) - 1 ELSE s.current_layer_index,
                       !.undo_stack = <<>>,
                       !.ret = "True"]
studio_add_layer(s) ==
    [s EXCEPT !.layers = Append(s.layers, Layer(CanvasW, CanvasH)),
              !.current_layer_index = Len(s.layers)]
change_layer(s, row) ==
    LET real_index == (Len(s.layers) - 1) - row
    IN  IF row >= 0 /\ 0 <= real_index /\ real_index < Len(s.layers)
        THEN [s EXCEPT !.current_layer_index = real_index] ELSE s

\* ------------------------------------------------- ProjectManager (studio)
\* ProjectManager.save_project: the file keeps the image, the offset and the
\* is_floating flag of every layer; a layer without the attribute is written
\* as not floating (getattr(layer, "is_floating", False)).
saved_layer(layer) ==
    [layer EXCEPT !.is_floating = IF layer.is_floating = Unset THEN "False"
                                  ELSE layer.is_floating]
save_project(layer_list) == [i \in DOMAIN layer_list |-> saved_layer(layer_list[i])]

\* ProjectManager.load_project: every layer of the file is rebuilt with its
\* image, offset and flag; the top layer becomes the active one and the undo
\* stack is cleared (the redo stack is not).
load_project(s, project_data) ==
    [s EXCEPT !.layers = project_data,
              !.current_layer_index = Len(project_data) - 1,
              !.undo_stack = <<>>]

\* An exception leaves the handler: the rest of it does not run.
Raised(s) == s.out \in {"TypeError", "AttributeError", "IndexError"}

\* The first if-chain of Canvas.mousePressEvent (left button, no Shift).  A
\* transform tool with a selection reads active_layer.is_floating, which
\* raises AttributeError on a layer that never got the attribute.
PressChain1(s, pos) ==
    CASE s.current_tool \in TransformTools ->
           IF ~PyIndexOK(s.layers, s.current_layer_index)
           THEN [s EXCEPT !.out = "IndexError"]
           ELSE IF s.selection_path # <<>>
                   /\ PyAt(s.layers, s.current_layer_index).is_floating = Unset
           THEN [s EXCEPT !.out = "AttributeError"]
           ELSE [(IF s.selection_path # <<>>
                     /\ PyAt(s.layers, s.current_layer_index).is_floating = "False"
                  THEN studio_lift_selection_to_layer(s) ELSE s)
                   EXCEPT !.drawing = TRUE, !.transform_start_pos = pos]
      [] s.current_tool = "lasso" ->
           [s EXCEPT !.is_selecting = TRUE, !.selection_path = <<>>,
                     !.lasso_points = <<pos>>]
      [] s.current_tool = "poly_lasso" ->
           [s EXCEPT !.selection_path = IF s.lasso_points = <<>> THEN <<>>
                                        ELSE s.selection_path,
                     !.lasso_points = Append(s.lasso_points, pos)]
      [] s.current_tool \in StudioPaintTools ->
           [(IF ActiveOK(s)
             THEN save_state(s, s.current_layer_index,
                             PyAt(s.layers, s.current_layer_index).image)
             ELSE s) EXCEPT !.drawing = TRUE, !.last_canvas_pos = pos]
      [] OTHER -> s

\* The second if-chain of Canvas.mousePressEvent, which runs after the
\* first: the paint tools save the state a second time.
PressChain2(s, pos) ==
    CASE s.current_tool = "move" ->
           [s EXCEPT !.drawing = TRUE, !.transform_start_pos = pos]
      [] s.current_tool = "lasso" ->
           [s EXCEPT !.is_selecting = TRUE, !.selection_path = <<>>,
                     !.lasso_points = <<pos>>]
      [] s.current_tool = "poly_lasso" ->
           [s EXCEPT !.selection_path = IF s.lasso_points = <<>> THEN <<>>
                                        ELSE s.selection_path,
                     !.lasso_points = Append(s.lasso_points, pos)]
      [] s.current_tool \in StudioPaintTools ->
           [(IF ActiveOK(s)
             THEN save_state(s, s.current_layer_index,
                             PyAt(s.layers, s.current_layer_index).image)
             ELSE s) EXCEPT !.drawing = TRUE, !.last_canvas_pos = pos]
      [] OTHER -> s

studio_mousePressEvent(s, pos) ==
    IF Raised(PressChain1(s, pos)) THEN PressChain1(s, pos)
    ELSE PressChain2(PressChain1(s, pos), pos)

\* Canvas.mouseMoveEvent with the left button down and no modifier.
studio_mouseMoveEvent(s, pos) ==
    IF s.panning THEN s
    ELSE IF s.drawing /\ s.current_tool = "move"
    THEN IF ~PyIndexOK(s.layers, s.current_layer_index)
         THEN [s EXCEPT !.out = "IndexError"]
         ELSE LET layer == PyAt(s.layers, s.current_layer_index)
                  moved == [layer EXCEPT
                              !.x = layer.x + PX(pos) - PX(s.transform_start_pos),
                              !.y = layer.y + PY(pos) - PY(s.transform_start_pos)]
              IN  [s EXCEPT !.layers = PySet(s.layers, s.current_layer_index, moved),
                            !.transform_start_pos = pos]
    ELSE IF s.current_tool = "lasso" /\ s.is_selecting
    THEN [s EXCEPT !.lasso_points = Append(s.lasso_points, pos)]
    ELSE IF s.current_tool = "poly_lasso" THEN s
    ELSE IF s.drawing /\ s.current_tool \in StudioPaintTools
    THEN studio_draw_stroke(s, pos)
    ELSE s

\* Canvas.mouseReleaseEvent: a lasso of more than two points becomes the
\* selection path.
studio_mouseReleaseEvent(s) ==
    LET a == [s EXCEPT !.panning = FALSE]
        b == IF a.current_tool = "lasso"
             THEN [a EXCEPT !.is_selecting = FALSE,
                            !.selection_path = IF Len(a.lasso_points) > 2
                                               THEN a.lasso_points ELSE a.selection_path,
                            !.lasso_points = <<>>]
             ELSE a
    IN  [b EXCEPT !.drawing = FALSE]

\* Canvas.keyPressEvent for Return / Enter: closes the polygon lasso; with a
\* transform tool commits and switches to the brush (which commits again on
\* leaving the tool).  The undo / redo chords below the `return True` of
\* lift_selection_to_layer are never reached.
studio_keyPressEvent(s, key) ==
    IF key # "Return" THEN s
    ELSE LET a == IF s.current_tool = "poly_lasso"
                  THEN [s EXCEPT !.selection_path = IF Len(s.lasso_points) > 2
                                                    THEN s.lasso_points
                                                    ELSE s.selection_path,
                                 !.lasso_points = <<>>]
                  ELSE s
             b == IF a.current_tool \in TransformTools
                  THEN studio_set_tool(studio_commit_transform(a), "brush")
                  ELSE a
         IN  IF b.current_tool = "move" THEN studio_commit_transform(b) ELSE b

\* -------------------------------------------------------------- the inputs
Programs == {"root", "gesso", "studio"}
\* Pointer positions, all on the canvas.
Positions == {Point(2, 0), Point(22, 0), Point(12, 1)}
Tools == {"BRUSH", "ERASER", "FILL", "MARQUEE", "LASSO", "MOVE", "PAN"}
StudioTools == {"brush", "eraser", "move", "lasso", "poly_lasso"}
Keys == {"Alt", "Space", "Escape", "Return"}
Chords == {"Ctrl+Z", "Ctrl+Shift+Z", "Ctrl+Y"}
ReleasedKeys == {"Alt", "Space", "Z"}
BrushSizes == {1, InitBrushSize}

\* ------------------------------------------------------------------- Init
\* Canvas.__init__ + init_layers of the root and of Gesso: a white
\* background under a transparent Layer 1, which is active.
InitCanvas(prog) ==
    [program |-> prog, event |-> "init", out |-> "", ret |-> Unset, buttons |-> FALSE,
     current_tool |-> "BRUSH", previous_tool |-> Unset,
     is_space_held |-> FALSE, is_z_held |-> FALSE, is_drawing |-> FALSE,
     is_panning |-> FALSE, is_scrub_zooming |-> FALSE, is_moving_selection |-> FALSE,
     last_point |-> Point(0, 0), selection_rect |-> None, drag_start |-> NoPoint,
     lasso_path |-> <<>>, floating_pixmap |-> None, floating_pos |-> Point(0, 0),
     layers |-> <<Pixmap(CanvasW, CanvasH, "W"), Pixmap(CanvasW, CanvasH, "T")>>,
     current_layer_index |-> 1, undo_stack |-> <<>>, redo_stack |-> <<>>,
     temp_layer_copy |-> None, stroke_rect |-> NullRect,
     brush_size |-> InitBrushSize, brush_color |-> "K",
     current_brush_tip |-> [size |-> InitBrushSize, color |-> "K"],
     dist_to_next_dot |-> 0, jitter_scatter |-> 0, canvas_undo_stack |-> <<>>,
     pre_stroke_full_image |-> None, drawing |-> FALSE, panning |-> FALSE,
     is_selecting |-> FALSE, is_eraser |-> FALSE, selection_path |-> <<>>,
     lasso_points |-> <<>>, transform_start_pos |-> Point(0, 0),
     last_canvas_pos |-> Point(0, 0), fill |-> None]

\* Canvas.__init__ + _init_layers of the studio.
InitStudio ==
    [InitCanvas("studio") EXCEPT
        !.current_tool = "brush",
        !.layers = << [Layer(CanvasW, CanvasH) EXCEPT !.image = Pixmap(CanvasW, CanvasH, "W")],
                      Layer(CanvasW, CanvasH) >>,
        !.brush_size = StudioBrushSize,
        !.current_brush_tip = None]

\* The project files to open: the file a freshly started studio saves.
ProjectFiles == {save_project(InitStudio.layers)}

InitState(prog) == IF prog = "studio" THEN InitStudio ELSE InitCanvas(prog)

\* One of the programs progs has just been started.
Started(progs) ==
    \E prog \in progs :
        /\ StateIs(InitState(prog))
        /\ snaps = <<InitState(prog).layers>>
        /\ cursor = 0
        /\ pre = <<>>

Init == Started(Programs)

\* ---------------------------------------------------- the history variable
\* snaps and cursor follow the recorded drawing operations from outside the
\* program: a finished operation appends the layers it left, an undo or a
\* redo that pops an entry moves the cursor, and any other change of the
\* layers starts a new record.  An undo or redo for which the record holds no
\* state empties it.  The record keeps one state more than the history
\* holds entries.
Capacity(prog) == IF prog = "studio" THEN limit ELSE max_history
Trimmed(prog, sq) == IF Len(sq) > Capacity(prog) + 1 THEN Tail(sq) ELSE sq
Painting(s) ==
    IF s.program = "studio"
    THEN s.drawing /\ s.current_tool \in StudioPaintTools /\ ActiveOK(s)
    ELSE /\ s.is_drawing /\ s.current_tool \in PaintTools
         /\ ~s.is_panning /\ ~s.is_scrub_zooming
\* Does a press at pos reach the fill of handle_press?
Filling(s, pos) ==
    /\ s.program # "studio" /\ s.current_tool = "FILL"
    /\ ~s.is_space_held /\ ~s.is_z_held
    /\ ~(s.program = "root" /\ RectTruthy(s.selection_rect)
                            /\ RectContains(s.selection_rect, pos))

Recorded(kind, r) ==
    CASE kind = "op" ->
           /\ snaps' = Trimmed(r.program, Append(SubSeq(snaps, 1, Min(cursor + 1, Len(snaps))),
                                                 r.layers))
           /\ cursor' = Len(snaps') - 1
      [] kind = "undo" ->
           IF undo_stack = <<>> THEN UNCHANGED <<snaps, cursor>>
           ELSE IF snaps # <<>> /\ cursor > 0
                THEN snaps' = snaps /\ cursor' = cursor - 1
                ELSE snaps' = <<>> /\ cursor' = 0
      [] kind = "redo" ->
           IF redo_stack = <<>> THEN UNCHANGED <<snaps, cursor>>
           ELSE IF snaps # <<>> /\ cursor < Len(snaps) - 1
                THEN snaps' = snaps /\ cursor' = cursor + 1
                ELSE snaps' = <<>> /\ cursor' = 0
      [] OTHER ->
           IF Painting(r) \/ r.layers = layers THEN UNCHANGED <<snaps, cursor>>
           ELSE snaps' = <<r.layers>> /\ cursor' = 0

\* pre is set by the pointer-down that starts a paint stroke and lasts until
\* the button goes up.
Record(kind, r) ==
    /\ Recorded(kind, r)
    /\ pre' = IF ~buttons /\ r.buttons /\ Painting(r) THEN layers
              ELSE IF buttons /\ r.buttons THEN pre
              ELSE <<>>

\* The state an event handler starts from, and the step it makes.
Start(ev) == [Cur EXCEPT !.event = ev, !.out = "", !.ret = Unset]
Handled(kind, r) == Becomes(r) /\ Record(kind, r)
Alive == ~Raised(Cur)

\* ------------------------------------------- the events: root and Gesso
Desktop == program \in {"root", "gesso"}

\* Left button down at pos.
MousePress(pos) ==
    /\ Alive /\ Desktop /\ ~buttons
    /\ LET s == [Start("mousePress") EXCEPT !.buttons = TRUE]
       IN  Handled(IF Filling(Cur, pos) THEN "op" ELSE "event",
                   IF program = "root" THEN mousePressEvent(s, pos)
                   ELSE gesso_mousePressEvent(s, pos))

\* Pointer moved to pos with the left button down.
MouseMove(pos) ==
    /\ Alive /\ Desktop /\ buttons
    /\ current_tool = "LASSO" => Len(lasso_path) < MaxLasso
    /\ Handled("event",
               IF program = "root" THEN handle_move(Start("mouseMove"), pos, TRUE)
               ELSE gesso_handle_move(Start("mouseMove"), pos, TRUE))

\* Left button up.
MouseRelease ==
    /\ Alive /\ Desktop /\ buttons
    /\ LET s == [Start("mouseRelease") EXCEPT !.buttons = FALSE]
       IN  Handled(IF Painting(Cur) THEN "op" ELSE "event",
                   IF program = "root" THEN handle_release(s, TRUE)
                   ELSE gesso_mouseReleaseEvent(s, TRUE))

\* A key without modifiers goes down.
KeyPress(key) ==
    /\ Alive /\ Desktop
    /\ Handled("event",
               IF program = "root" THEN keyPressEvent(Start(key), key, FALSE, FALSE)
               ELSE gesso_keyPressEvent(Start(key), key, FALSE, FALSE))

\* Ctrl+Z, Ctrl+Shift+Z or Ctrl+Y goes down.
Chord(chord) ==
    /\ Alive /\ Desktop
    /\ LET key == IF chord = "Ctrl+Y" THEN "Y" ELSE "Z"
           shift == (chord = "Ctrl+Shift+Z")
       IN  Handled(IF chord = "Ctrl+Z" THEN "undo" ELSE "redo",
                   IF program = "root" THEN keyPressEvent(Start(chord), key, TRUE, shift)
                   ELSE gesso_keyPressEvent(Start(chord), key, TRUE, shift))

\* A key goes up.
KeyRelease(key) ==
    /\ Alive /\ Desktop
    /\ Handled("event", keyReleaseEvent(Start("keyRelease"), key))

\* A tool shortcut or tool button of the main window.
SetTool(tool) ==
    /\ Alive /\ Desktop
    /\ Handled("event", set_tool(Start("set_tool"), tool))

\* The size slider and the colour dialog.
SetBrushSize(size) ==
    /\ Alive /\ Desktop
    /\ Handled("event",
               IF program = "root" THEN set_brush_size(Start("set_brush_size"), size)
               ELSE gesso_set_brush_size(Start("set_brush_size"), size))
SetBrushColor(color) ==
    /\ Alive /\ Desktop
    /\ Handled("event", set_brush_color(Start("set_brush_color"), color))

\* The layer panel: add, delete, select a row.
AddNewLayer ==
    /\ Alive /\ Desktop /\ Len(layers) < MaxLayers
    /\ Handled("event", add_new_layer(Start("add_new_layer")))
DeleteActiveLayer ==
    /\ Alive /\ Desktop
    /\ Handled("event", delete_active_layer(Start("delete_active_layer")))
SetActiveLayer(index) ==
    /\ Alive /\ Desktop
    /\ Handled("event", set_active_layer(Start("set_active_layer"), index))

\* ------------------------------------------------- the events: the studio
Studio == program = "studio"

\* The offsets of every layer stay within MaxOffset.
WithinOffset(s) ==
    \A i \in DOMAIN s.layers :
        /\ -MaxOffset <= s.layers[i].x /\ s.layers[i].x <= MaxOffset
        /\ -MaxOffset <= s.layers[i].y /\ s.layers[i].y <= MaxOffset

StudioMousePress(pos) ==
    /\ Alive /\ Studio /\ ~buttons
    /\ current_tool \in {"lasso", "poly_lasso"} => Len(lasso_points) + 2 <= MaxLasso + 1
    /\ Handled("event",
               studio_mousePressEvent([Start("mousePress") EXCEPT !.buttons = TRUE], pos))

StudioMouseMove(pos) ==
    /\ Alive /\ Studio /\ buttons
    /\ current_tool = "lasso" => Len(lasso_points) < MaxLasso
    /\ Raised(studio_mouseMoveEvent(Start("mouseMove"), pos))
          \/ WithinOffset(studio_mouseMoveEvent(Start("mouseMove"), pos))
    /\ Handled("event", studio_mouseMoveEvent(Start("mouseMove"), pos))

StudioMouseRelease ==
    /\ Alive /\ Studio /\ buttons
    /\ Handled(IF Painting(Cur) THEN "op" ELSE "event",
               studio_mouseReleaseEvent([Start("mouseRelease") EXCEPT !.buttons = FALSE]))

StudioKeyPress(key) ==
    /\ Alive /\ Studio
    /\ Handled("event", studio_keyPressEvent(Start(key), key))

\* The buttons of the tool station.
StudioSetTool(tool) ==
    /\ Alive /\ Studio
    /\ Handled("event", studio_set_tool(Start("set_tool"), tool))

\* HistoryManager.undo(layers) and redo(layers), called on the canvas's
\* history with the canvas's layers.
StudioUndo ==
    /\ Alive /\ Studio
    /\ Handled("undo", studio_undo(Start("undo")))
StudioRedo ==
    /\ Alive /\ Studio
    /\ Handled("redo", studio_redo(Start("redo")))

\* The layer panel.
StudioAddLayer ==
    /\ Alive /\ Studio /\ Len(layers) < MaxLayers
    /\ Handled("event", studio_add_layer(Start("add_layer")))
StudioDeleteLayer ==
    /\ Alive /\ Studio
    /\ Handled("event", studio_delete_active_layer(Start("delete_active_layer")))
StudioChangeLayer(row) ==
    /\ Alive /\ Studio
    /\ Handled("event", change_layer(Start("change_layer"), row))

\* File > Open Project of the tool station.
StudioLoadProject(project_data) ==
    /\ Alive /\ Studio
    /\ Handled("event", load_project(Start("load_project"), project_data))

\* The scatter slider of the brush settings: update_jitter('scatter', value)
\* calls set_jitter_scatter(value / 100.0).  The stamps are modelled without
\* scatter: the sessions that draw leave the slider at 0.
SetJitterScatter(value) ==
    /\ Alive /\ Desktop
    /\ Handled("event", set_jitter_scatter(Start("set_jitter_scatter"), value))

\* BucketTool.mouse_press with the left button at pos.  The canvas creates
\* no BucketTool: the tool is driven on its own.
BucketMousePress(pos) ==
    /\ Alive /\ Studio
    /\ Handled("op", bucket_mouse_press(Start("bucket_press"), pos))

\* A press with the fill tool of the root canvas has reached the loop of
\* flood_fill; the bucket of the studio has reached the loop of its fill.
FillStart(pos) ==
    /\ Alive /\ program = "root" /\ ~buttons /\ fill = None
    /\ Filling(Cur, pos)
    /\ Becomes([Cur EXCEPT !.fill = FloodCall(active_layer(Cur), pos, brush_color)])
    /\ UNCHANGED traceVars
BucketStart(pos) ==
    /\ Alive /\ Studio /\ fill = None
    /\ ActiveOK(Cur)
    /\ Becomes([Cur EXCEPT !.fill = BucketCall(PyAt(layers, current_layer_index).image,
                                               pos, brush_color)])
    /\ UNCHANGED traceVars
\* One pass of the loop.
FillStep ==
    /\ fill # None /\ fill.queue # <<>>
    /\ \E after \in {IF program = "studio" THEN bucket_fill_step(fill)
                     ELSE flood_fill_step(fill)} :
          Becomes([Cur EXCEPT !.fill = after])
    /\ UNCHANGED traceVars
\* The queue is empty: the fill returns and the handler that called it
\* finishes.
FillReturn ==
    /\ fill # None /\ fill.queue = <<>>
    /\ \E done \in {IF program = "studio"
                    THEN bucket_mouse_press(Start("bucket_press"), fill.seed)
                    ELSE mousePressEvent([Start("mousePress") EXCEPT !.buttons = TRUE],
                                         fill.seed)} :
          Handled("op", [done EXCEPT !.fill = None])

\* ------------------------------------------------------ the specification
Next ==
    \/ \E pos \in Positions : MousePress(pos)
    \/ \E pos \in Positions : MouseMove(pos)
    \/ MouseRelease
    \/ \E key \in Keys : KeyPress(key)
    \/ \E chord \in Chords : Chord(chord)
    \/ \E key \in ReleasedKeys : KeyRelease(key)
    \/ \E tool \in Tools : SetTool(tool)
    \/ \E size \in BrushSizes : SetBrushSize(size)
    \/ \E color \in BrushColors : SetBrushColor(color)
    \/ AddNewLayer
    \/ DeleteActiveLayer
    \/ \E index \in 0 .. MaxLayers - 1 : SetActiveLayer(index)
    \/ \E pos \in Positions : StudioMousePress(pos)
    \/ \E pos \in Positions : StudioMouseMove(pos)
    \/ StudioMouseRelease
    \/ StudioKeyPress("Return")
    \/ \E tool \in StudioTools : StudioSetTool(tool)
    \/ StudioUndo
    \/ StudioRedo
    \/ StudioAddLayer
    \/ StudioDeleteLayer
    \/ \E row \in 0 .. MaxLayers - 1 : StudioChangeLayer(row)
    \/ \E project_data \in ProjectFiles : StudioLoadProject(project_data)

Spec == Init /\ [][Next]_vars

\* ------------------------------------------------------ drawing sessions
\* A drawing session: strokes and fills with the brush as it is set up at the
\* start, tool changes, undo and redo.  Between pointer-down and pointer-up
\* only pointer moves arrive.
DrawPositions == {Point(2, 0), Point(22, 0)}
DrawTools == {"BRUSH", "FILL"}
Idle == ~buttons

NextDraw ==
    \/ \E pos \in DrawPositions : MousePress(pos)
    \/ \E pos \in DrawPositions : MouseMove(pos)
    \/ MouseRelease
    \/ Idle /\ \E chord \in Chords : Chord(chord)
    \/ Idle /\ KeyRelease("Z")
    \/ Idle /\ \E tool \in DrawTools : SetTool(tool)
    \/ \E pos \in DrawPositions : StudioMousePress(pos)
    \/ \E pos \in DrawPositions : StudioMouseMove(pos)
    \/ StudioMouseRelease
    \/ Idle /\ StudioUndo
    \/ Idle /\ StudioRedo

SpecDraw == Started({"root", "studio"}) /\ [][NextDraw]_vars

\* ------------------------------------------------------- other sessions
\* Gesso: fills and strokes from the left of the canvas, undo and redo.
NextGesso ==
    \/ MousePress(Point(2, 0))
    \/ MouseMove(Point(22, 0))
    \/ MouseRelease
    \/ Idle /\ \E chord \in Chords : Chord(chord)
    \/ Idle /\ KeyRelease("Z")
    \/ Idle /\ \E tool \in DrawTools : SetTool(tool)

SpecGesso == Started({"gesso"}) /\ [][NextGesso]_vars

\* Brush strokes during which the Alt and Space keys go down and up.
HeldKeys == {"Alt", "Space"}
NextKeys ==
    \/ MousePress(Point(2, 0))
    \/ MouseMove(Point(22, 0))
    \/ MouseRelease
    \/ \E key \in HeldKeys : KeyPress(key)
    \/ \E key \in HeldKeys : KeyRelease(key)
    \/ StudioMousePress(Point(2, 0))
    \/ StudioMouseMove(Point(22, 0))
    \/ StudioMouseRelease

SpecKeys == Started({"root", "studio"}) /\ [][NextKeys]_vars

\* Work on the layer stack: layers are added, deleted and selected in the
\* layer panel; the studio drags them to the right with the move tool and
\* commits.  The panel and the tool buttons are clicked with the pointer, so
\* not during a drag.
NextLayers ==
    \/ AddNewLayer
    \/ DeleteActiveLayer
    \/ \E index \in 0 .. MaxLayers - 1 : SetActiveLayer(index)
    \/ Idle /\ StudioAddLayer
    \/ Idle /\ StudioDeleteLayer
    \/ Idle /\ \E row \in 0 .. MaxLayers - 1 : StudioChangeLayer(row)
    \/ Idle /\ \E tool \in {"brush", "move"} : StudioSetTool(tool)
    \/ current_tool = "move" /\ StudioMousePress(Point(2, 0))
    \/ StudioMouseMove(Point(22, 0))
    \/ StudioMouseRelease
    \/ Idle /\ StudioKeyPress("Return")

SpecLayers == Started({"root", "studio"}) /\ [][NextLayers]_vars

\* ------------------------------------------------- properties of the history
\* Does this step push onto the undo stack?  The patch based manager prints
\* a line on every push; the studio saves at the pointer-down that starts a
\* paint stroke.
Pushes ==
    IF program = "studio" THEN event' = "mousePress" /\ Painting(Nxt)
    ELSE out' = "History Saved."
\* Does this step complete a recorded drawing operation (a stroke or a fill)?
OpRecorded ==
    IF program = "studio" THEN event' = "mouseRelease" /\ pre # <<>>
    ELSE out' = "History Saved."
\* The layers before that operation began.
Before == IF event' = "mousePress" THEN layers ELSE pre
UndoCall == event' \in {"Ctrl+Z", "undo"}
RedoCall == event' \in {"Ctrl+Shift+Z", "Ctrl+Y", "redo"}
Undo(s) == IF s.program = "studio" THEN studio_undo(s) ELSE undo(s)
Redo(s) == IF s.program = "studio" THEN studio_redo(s) ELSE redo(s)
Same(a, b) ==
    /\ a.layers = b.layers
    /\ a.undo_stack = b.undo_stack
    /\ a.redo_stack = b.redo_stack
Blank(pm) == \A p \in DOMAIN pm.px : pm.px[p] = "T"

\* C1: for one recorded operation O, undo straight after O brings back the
\* pixels of every layer as they were before O, redo straight after that
\* undo brings back the pixels as they were after O, and undo-redo-undo
\* equals undo, redo-undo-redo equals redo.
C1_RoundTrip ==
    [][/\ OpRecorded =>
            /\ Undo(Nxt).layers = Before
            /\ Redo(Undo(Nxt)).layers = layers'
       /\ (event \in {"mousePress", "mouseRelease"} /\ UndoCall /\ undo_stack # <<>>) =>
            Same(Undo(Redo(Nxt)), Nxt)
       /\ (event \in {"Ctrl+Z", "undo"} /\ RedoCall /\ redo_stack # <<>>) =>
            Same(Redo(Undo(Nxt)), Nxt)]_vars
\* A stroke has been recorded whose undo changes pixels and whose redo
\* brings them back.
C1_Witness ==
    /\ program = "root" /\ event = "mouseRelease" /\ out = "History Saved."
    /\ undo(Cur).layers # layers
    /\ redo(undo(Cur)).layers = layers

\* C2: every push (push_state, save_state) leaves the redo stack empty.
C2_PushClearsRedo == [][Pushes => redo_stack' = <<>>]_vars
\* A push onto a full undo stack has happened.
C2_Witness ==
    /\ program = "root" /\ event = "mouseRelease" /\ out = "History Saved."
    /\ Len(undo_stack) = max_history /\ redo_stack = <<>>

C4_LifoUndo == (~buttons /\ snaps # <<>>) => layers = snaps[cursor + 1]

\* C5: undo on an empty undo stack and redo on an empty redo stack change
\* neither the layers nor the stacks and raise nothing.
C5_EmptyNoOp ==
    [][((UndoCall /\ undo_stack = <<>>) \/ (RedoCall /\ redo_stack = <<>>)) =>
          /\ layers' = layers
          /\ undo_stack' = undo_stack
          /\ redo_stack' = redo_stack
          /\ ~Raised(Nxt)]_vars
\* Ctrl+Z has been pressed with nothing to undo.
C5_Witness ==
    /\ program = "root" /\ event = "Ctrl+Z" /\ out = "Nothing to Undo."
    /\ undo_stack = <<>>

\* ---------------------------------------------- properties of the layers
\* C6: the layer stack of the studio always holds at least one layer.
C6_NeverEmpty == program = "studio" => Len(layers) >= 1

\* C7: delete_active_layer on a stack of one layer returns False and leaves
\* the layers and the active index as they were.
C7_LastLayerStays ==
    [][(event' = "delete_active_layer" /\ Len(layers) = 1) =>
          /\ ret' = "False"
          /\ layers' = layers
          /\ current_layer_index' = current_layer_index]_vars
\* The delete button has been pressed on the only layer, after others were
\* deleted.
C7_Witness ==
    /\ event = "delete_active_layer" /\ ret = "False"
    /\ Len(layers) = 1

\* ---------------------------------------------- properties of the strokes
\* The undo stack after one push of e.
PushedOnto(stack, prog, e) ==
    LET appended == Append(stack, e)
    IN  IF Len(appended) > Capacity(prog) THEN Tail(appended) ELSE appended

\* C8: a brush or eraser stroke adds exactly one entry to the undo history,
\* at pointer-up, whatever keys go down or up during the stroke: nothing is
\* pushed at pointer-down or while the button is held, and pointer-up pushes
\* one entry.
C8_OneEntryPerStroke ==
    [][/\ (event' = "mousePress" /\ pre' # <<>>) => undo_stack' = undo_stack
       /\ (event' # "mouseRelease" /\ pre # <<>>) => undo_stack' = undo_stack
       /\ (event' = "mouseRelease" /\ pre # <<>>) =>
             /\ undo_stack' # <<>>
             /\ undo_stack' = PushedOnto(undo_stack, program,
                                         undo_stack'[Len(undo_stack')])]_vars

\* Does this step handle a pointer-down that reaches the fill?
FillPress ==
    /\ program # "studio" /\ event' = "mousePress"
    /\ Filling(Cur, last_point')

\* C9: every Fill pointer-down pushes exactly one whole-layer patch whose
\* `before` is the active layer before the fill and whose `after` is the
\* active layer after it.
C9_FillPatch ==
    [][FillPress =>
          /\ undo_stack' # <<>>
          /\ LET e == undo_stack'[Len(undo_stack')]
             IN  /\ undo_stack' = PushedOnto(undo_stack, program, e)
                 /\ e.layer_index = current_layer_index
                 /\ e.rect = PixRect(active_layer(Cur))
                 /\ e.before = active_layer(Cur)
                 /\ e.after = active_layer(Nxt)]_vars

\* C10: every patch on the undo stack and on the redo stack of the patch
\* based history has an `after` image.
C10_AfterNeverNull ==
    program \in {"root", "gesso"} =>
        /\ \A i \in DOMAIN undo_stack : undo_stack[i].after # None
        /\ \A i \in DOMAIN redo_stack : redo_stack[i].after # None

\* ------------------------------------------------------ selection sessions
\* The root canvas: marquee and lasso selections on Layer 1 or, once it is
\* made the active layer, on the background.  The tool and the layer are
\* chosen between gestures, and the pointer goes down only once a selection
\* tool is chosen.
SelectTools == {"MARQUEE", "LASSO"}
NextSelect ==
    \/ current_tool \in SelectTools /\ \E pos \in DrawPositions : MousePress(pos)
    \/ \E pos \in DrawPositions : MouseMove(pos)
    \/ MouseRelease
    \/ Idle /\ \E tool \in SelectTools : SetTool(tool)
    \/ Idle /\ SetActiveLayer(0)

SpecSelect == Started({"root"}) /\ [][NextSelect]_vars

\* ------------------------------------------- properties of the selections
PointerEvents == {"mousePress", "mouseMove", "mouseRelease"}

\* C11: a pointer event handled while the Marquee or the Lasso tool is
\* current leaves the pixels of every layer and both history stacks as they
\* were.
C11_SelectingKeepsPixels ==
    [][(/\ program = "root"
        /\ current_tool \in {"MARQUEE", "LASSO"}
        /\ event' \in PointerEvents) =>
          /\ layers' = layers
          /\ undo_stack' = undo_stack
          /\ redo_stack' = redo_stack]_vars

\* ------------------------------------------------------- the pointer modes
\* The root and the Gesso canvas: strokes, pans and scrub zooms, begun with
\* the tool buttons or with the Space and Z keys held.
ModeKeys == {"Space", "Z"}
ModeTools == {"BRUSH", "PAN", "ZOOM"}
NextModes ==
    \/ MousePress(Point(2, 0))
    \/ MouseMove(Point(22, 0))
    \/ MouseRelease
    \/ \E key \in ModeKeys : KeyPress(key)
    \/ \E key \in ModeKeys : KeyRelease(key)
    \/ Idle /\ \E tool \in ModeTools : SetTool(tool)

SpecModes == Started({"root", "gesso"}) /\ [][NextModes]_vars

\* C12: in every reachable state at most one of is_drawing, is_panning and
\* is_scrub_zooming is true.
C12_OneMode ==
    /\ ~(is_drawing /\ is_panning)
    /\ ~(is_drawing /\ is_scrub_zooming)
    /\ ~(is_panning /\ is_scrub_zooming)

\* ------------------------------------------------------ lifting a selection
\* The studio: a project is opened, the lasso traces the outline of a
\* rectangle, the move tool lifts the selection and drags the floating layer
\* a few pixels along the top row, and the Return key or the brush button
\* commits.  Selections and drags are made until the first commit after the
\* start or after a project was opened.
Outline(x) == <<Point(x, 0), Point(x + 4, 0), Point(x + 4, 1), Point(x, 1)>>
Outlines == {Outline(0), Outline(2)}
Drags == {Point(0, 0), Point(4, 0)}
LiftTools == {"lasso", "move", "brush"}
Floats(s) == ActiveOK(s) /\ PyAt(s.layers, s.current_layer_index).is_floating = "True"
DragNear == Floats(Cur) /\ PyAt(layers, current_layer_index).x \in 0 .. 4
NextLift ==
    \/ Idle /\ \E project_data \in ProjectFiles : StudioLoadProject(project_data)
    \/ Idle /\ \E tool \in LiftTools : StudioSetTool(tool)
    \/ Idle /\ \E row \in 0 .. 1 : StudioChangeLayer(row)
    \/ /\ current_tool = "lasso" /\ undo_stack = <<>>
       /\ \E o \in Outlines : StudioMousePress(o[1])
    \/ /\ current_tool = "lasso"
       /\ \E o \in Outlines :
             /\ Len(lasso_points) < Len(o)
             /\ lasso_points = SubSeq(o, 1, Len(lasso_points))
             /\ StudioMouseMove(o[Len(lasso_points) + 1])
    \/ current_tool = "move" /\ undo_stack = <<>> /\ StudioMousePress(Point(2, 0))
    \/ current_tool = "move" /\ \E pos \in Drags : StudioMouseMove(pos) /\ DragNear'
    \/ StudioMouseRelease
    \/ Idle /\ StudioKeyPress("Return")

SpecLift == Started({"studio"}) /\ [][NextLift]_vars

\* ------------------------------------------- properties of the transforms
\* A step that commits the transform of the active layer: the tool station
\* leaves the transform tools, or Return is pressed with a transform tool.
Commits ==
    /\ program = "studio" /\ ActiveOK(Cur)
    /\ current_tool \in TransformTools
    /\ \/ event' = "set_tool" /\ current_tool' \notin TransformTools
       \/ event' = "Return"
Active == PyAt(layers, current_layer_index)
Below == PyAt(layers, current_layer_index - 1)

\* C13: committing the transform of a floating layer merges it into the
\* layer immediately below, removes the floating layer (one layer less) and
\* makes the merged layer the active one.
C13_FloatingMerges ==
    [][(Commits /\ Floats(Cur)) =>
          /\ Len(layers') = Len(layers) - 1
          /\ current_layer_index' = current_layer_index - 1
          /\ Active'.image = DrawOver(Below.image, Point(Active.x, Active.y), Active.image)
          /\ \A i \in DOMAIN layers' :
                /\ i < current_layer_index => layers'[i] = layers[i]
                /\ i > current_layer_index => layers'[i] = layers[i + 1]]_vars

\* C14: committing a normal (not floating) layer whose transform is not the
\* identity bakes it in place: the layer stays in the stack, the number of
\* layers and the pixels of the other layers do not change, and the layer's
\* transform is the identity again.
C14_BakesInPlace ==
    [][(Commits /\ ~Floats(Cur) /\ ~(Active.x = 0 /\ Active.y = 0)) =>
          /\ Len(layers') = Len(layers)
          /\ current_layer_index' = current_layer_index
          /\ Active'.x = 0 /\ Active'.y = 0
          /\ \A i \in DOMAIN layers :
                i # current_layer_index + 1 => layers'[i].image = layers[i].image]_vars

\* A step of the root canvas that anchors the floating pixels: they are
\* drawn onto the active layer and the floating pixmap is dropped.
Anchors ==
    /\ program = "root"
    /\ PixmapTruthy(floating_pixmap) /\ ~PixmapTruthy(floating_pixmap')
    /\ layers' # layers
Newest(stack) == stack[Len(stack)]

\* C15: every commit that writes floating or transformed pixels into a
\* layer (anchor_selection of the root, commit_transform of the studio)
\* pushes one history entry that holds the whole affected layer as it was
\* before the commit, so that one undo brings that layer back.  (For the
\* studio the steps of the tool station are taken, which commit once.)
C15_CommitPushesBefore ==
    [][/\ Anchors =>
            /\ undo_stack' # <<>>
            /\ undo_stack' = PushedOnto(undo_stack, "root", Newest(undo_stack'))
            /\ Newest(undo_stack').layer_index = current_layer_index
            /\ Newest(undo_stack').before = active_layer(Cur)
            /\ undo(Nxt).layers = layers
       /\ (Commits /\ event' = "set_tool" /\ layers' # layers) =>
            /\ undo_stack' # <<>>
            /\ undo_stack' = PushedOnto(undo_stack, "studio", Newest(undo_stack'))
            /\ Newest(undo_stack').layer_index = current_layer_index'
            /\ Newest(undo_stack').image = Below.image
            /\ active_layer(studio_undo(Nxt)).image = Below.image]_vars

\* ---------------------------------------------- properties of the lifting
\* A pointer-down of the studio with a transform tool, while a selection
\* exists and the active layer is not a floating one.
LiftDue ==
    /\ program = "studio" /\ event' = "mousePress"
    /\ current_tool \in TransformTools
    /\ selection_path # <<>>
    /\ ActiveOK(Cur) /\ ~Floats(Cur)
\* The step put a new floating layer on top and made it the active one.
Lifted == Len(layers') = Len(layers) + 1 /\ Floats(Nxt)

\* C16: a selection is lifted exactly once: the first pointer-down with a
\* transform tool while a non-empty selection exists on a non-floating
\* active layer lifts it, and no other pointer-down adds a layer.
C16_LiftedOnce ==
    [][/\ LiftDue => Lifted
       /\ (program = "studio" /\ event' = "mousePress" /\ ~LiftDue) =>
             Len(layers') = Len(layers)]_vars

\* lift_selection_to_layer returned True in this step.
LiftDone == program = "studio" /\ event' = "mousePress" /\ ret' = "True"
Xs(path) == {PX(path[i]) : i \in DOMAIN path}
Ys(path) == {PY(path[i]) : i \in DOMAIN path}
Lowest(S) == CHOOSE v \in S : \A w \in S : v <= w
Highest(S) == CHOOSE v \in S : \A w \in S : v >= w

\* C17: a successful lift adds exactly one layer: a floating layer of the
\* size of the selection's bounding rectangle, placed at the rectangle's
\* origin, on top of the stack and active; the selection is empty
\* afterwards.
C17_LiftAddsOne ==
    [][LiftDone =>
          LET top == layers'[Len(layers')]
          IN  /\ Len(layers') = Len(layers) + 1
              /\ \A i \in DOMAIN layers :
                    /\ layers'[i].is_floating = layers[i].is_floating
                    /\ layers'[i].x = layers[i].x /\ layers'[i].y = layers[i].y
              /\ top.is_floating = "True"
              /\ top.image.w = Highest(Xs(selection_path)) - Lowest(Xs(selection_path))
              /\ top.image.h = Highest(Ys(selection_path)) - Lowest(Ys(selection_path))
              /\ top.x = Lowest(Xs(selection_path))
              /\ top.y = Lowest(Ys(selection_path))
              /\ current_layer_index' = Len(layers') - 1
              /\ selection_path' = <<>>]_vars
\* A selection away from the origin has just been lifted.
C17_Witness ==
    /\ program = "studio" /\ event = "mousePress" /\ ret = "True"
    /\ Len(layers) = 3 /\ Floats(Cur)
    /\ Active.x = 2 /\ Active.image.w = 4
    /\ selection_path = <<>>

\* The pixels of the bounding rectangle of a path.
Inside(path) ==
    {p \in (Lowest(Xs(path)) .. Highest(Xs(path)) - 1)
           \X (Lowest(Ys(path)) .. Highest(Ys(path)) - 1) : TRUE}
Rectangular(path) ==
    /\ Len(path) = 4
    /\ PX(path[1]) = PX(path[4]) /\ PX(path[2]) = PX(path[3])
    /\ PY(path[1]) = PY(path[2]) /\ PY(path[3]) = PY(path[4])
FloatingLayers(stack) == {i \in DOMAIN stack : stack[i].is_floating = "True"}

\* C18: lifting a rectangular selection R and committing the floating layer
\* after a translation by (dx, dy) moves the pixels: the lift takes the
\* pixels of R off the layer (R is transparent there) and onto the floating
\* layer, and the commit puts the floating layer's pixels, where it is then,
\* on the layer below it and removes the floating layer.  (Transparent
\* pixels of the floating layer are not asked to cover the layer below.)
C18_LiftCommitMoves ==
    [][/\ (LiftDone /\ Rectangular(selection_path)) =>
            \A p \in Inside(selection_path) :
                /\ layers'[current_layer_index + 1].image.px[p] = "T"
                /\ Active'.image.px[<<PX(p) - Active'.x, PY(p) - Active'.y>>]
                      = Active.image.px[p]
       /\ (Commits /\ Floats(Cur)) =>
            /\ FloatingLayers(layers') # FloatingLayers(layers)
            /\ Len(layers') = Len(layers) - 1
            /\ \A p \in DOMAIN Active.image.px :
                  LET q == <<PX(p) + Active.x, PY(p) + Active.y>>
                  IN  (q \in DOMAIN Active'.image.px /\ Active.image.px[p] # "T") =>
                         Active'.image.px[q] = Active.image.px[p]]_vars

\* C19: whenever the current tool of the studio is not move, rotate or
\* scale, every layer has the identity transform.
C19_IdentityOutsideTransform ==
    (program = "studio" /\ current_tool \notin TransformTools) =>
        \A i \in DOMAIN layers : layers[i].x = 0 /\ layers[i].y = 0

\* C20: in no reachable state is selection_rect set while lasso_path is
\* not empty.
C20_RectOrLasso == ~(selection_rect # None /\ lasso_path # <<>>)

\* ---------------------------------------------- properties of the engine
\* A pointer move of the root or the Gesso canvas that draws a segment of
\* the stroke from last_point to the new position.
DrawsSegment ==
    /\ program \in {"root", "gesso"}
    /\ event' = "mouseMove"
    /\ Painting(Cur) /\ Painting(Nxt)
\* The points with whole coordinates on the segment from a to b of one row,
\* both ends included.
OnSegment(a, b) ==
    IF PY(a) # PY(b) THEN {a, b}
    ELSE {Point(x, PY(a)) : x \in Min(PX(a), PX(b)) .. Max(PX(a), PX(b))}
Placed(stamps_seq) == {stamps_seq[i] : i \in DOMAIN stamps_seq}

\* C21: a segment drawn by two consecutive draw_line calls, split at any
\* point of it, gets its stamps at the positions one draw_line call over
\* the whole segment gives, starting from the same carried distance, and
\* carries the same distance on.
C21_SplitSpacing ==
    [][DrawsSegment =>
          /\ dist_to_next_dot' = carried(last_point, last_point', dist_to_next_dot,
                                         brush_size)
          /\ \A mid \in OnSegment(last_point, last_point') :
                LET d == carried(last_point, mid, dist_to_next_dot, brush_size)
                IN  /\ stamp_positions(last_point, mid, dist_to_next_dot, brush_size)
                          \o stamp_positions(mid, last_point', d, brush_size)
                       = stamp_positions(last_point, last_point', dist_to_next_dot,
                                         brush_size)
                    /\ carried(mid, last_point', d, brush_size) = dist_to_next_dot']_vars

\* C22: within one stroke no point is stamped twice: the tap at
\* pointer-down stamps the press point once, and the segment that follows
\* places no further stamp there.
C22_NoDoubleStamp ==
    [][(DrawsSegment /\ event = "mousePress") =>
          Point(10 * PX(last_point), 10 * PY(last_point))
             \notin Placed(stamp_positions(last_point, last_point', dist_to_next_dot,
                                           brush_size))]_vars

\* ------------------------------------------------------ painting sessions
\* A short painting session on the desktop programs with a small brush:
\* strokes, rubbing out and fills, between which the tool, the colour and
\* the size are set.  The session ends when the history is full.
PaintingTools == {"BRUSH", "ERASER", "FILL"}
SmallSizes == {StudioBrushSize}
HistoryFull == Len(undo_stack) >= max_history
NextPaint ==
    \/ ~HistoryFull /\ \E pos \in DrawPositions : MousePress(pos)
    \/ MouseMove(Point(22, 0))
    \/ MouseRelease
    \/ Idle /\ \E tool \in PaintingTools : SetTool(tool)
    \/ Idle /\ \E size \in SmallSizes : SetBrushSize(size)
    \/ Idle /\ SetBrushColor("R")

SpecPaint == Started({"root", "gesso"}) /\ [][NextPaint]_vars

\* The pixels 4-connected to `seed` through pixels of the seed's colour: the
\* least set holding the seed and closed under stepping to a neighbour of
\* that colour.
RECURSIVE Region(_, _, _)
Region(px, colour, reached) ==
    LET more == {p \in DOMAIN px : /\ px[p] = colour /\ p \notin reached
                                   /\ \E q \in reached : p \in Neighbours(q)}
    IN  IF more = {} THEN reached ELSE Region(px, colour, reached \cup more)
Connected(px, seed) == Region(px, px[seed], {seed})

\* The last event was a press that filled the active layer from the seed
\* last_point, and the record holds the layers as they were before it.
Filled ==
    /\ Desktop /\ event = "mousePress" /\ current_tool = "FILL"
    /\ ~is_space_held /\ ~is_z_held /\ selection_rect = None
    /\ Len(snaps) >= 2 /\ snaps[Len(snaps)] = layers
    /\ last_point \in DOMAIN active_layer(Cur).px
BeforeFill == snaps[Len(snaps) - 1][current_layer_index + 1].px

\* C23: a fill from a seed inside the layer gives every pixel 4-connected to
\* the seed through pixels of the seed's colour the fill colour and leaves
\* every other pixel of the layer as it was.
C23_FillContained ==
    Filled =>
       LET now == active_layer(Cur).px
           region == Connected(BeforeFill, last_point)
       IN  \A p \in DOMAIN now :
              now[p] = IF p \in region THEN brush_color ELSE BeforeFill[p]

\* -------------------------------------------------- the studio's pixel tools
\* The top layer is dragged to the right with the move tool, the layer panel
\* selects a layer, and the brush, the eraser and the bucket work on it.  The
\* session ends when the history is full.
NextTools ==
    \/ Idle /\ \E tool \in {"brush", "eraser", "move"} : StudioSetTool(tool)
    \/ ~HistoryFull /\ StudioMousePress(Point(2, 0))
    \/ StudioMouseMove(Point(22, 0))
    \/ StudioMouseRelease
    \/ Idle /\ \E row \in {0, 1} : StudioChangeLayer(row)
    \/ Idle /\ ~HistoryFull /\ \E pos \in DrawPositions : BucketMousePress(pos)

SpecTools == Started({"studio"}) /\ [][NextTools]_vars

\* The position in the active layer's image that shows at canvas position
\* pos: the layer's translation taken off.
InLayer(pos) == Point(PX(pos) - Active.x, PY(pos) - Active.y)
\* A step in which a pixel tool acts at the canvas position `at`: a move with
\* the brush or the eraser held down (draw_stroke), or a press with the bucket.
ToolActs(at) ==
    /\ Studio /\ ActiveOK(Cur) /\ selection_path = <<>>
    /\ \/ /\ event' = "mouseMove" /\ Painting(Cur)
          /\ at = last_canvas_pos'
       \/ /\ event' = "bucket_press"
          /\ at \in DrawPositions
          /\ Nxt = bucket_mouse_press(Start("bucket_press"), at)
Ink == IF event' = "bucket_press" THEN brush_color
       ELSE IF is_eraser THEN "T" ELSE brush_color

\* C24: when the brush, the eraser or the bucket acts at canvas position p
\* on a layer translated by (dx, dy), the pixel of the layer's image at
\* p - (dx, dy) takes the ink, and when p - (dx, dy) lies outside the image
\* the pixel at p does not.
C24_InverseMapped ==
    [][\A at \in DrawPositions :
          ToolActs(at) =>
             IF InLayer(at) \in DOMAIN Active.image.px
             THEN PyAt(layers', current_layer_index).image.px[InLayer(at)] = Ink
             ELSE Active.x # 0 =>
                     PyAt(layers', current_layer_index).image.px[at] = Active.image.px[at]]_vars

\* A step in which the eraser draws on the active layer: the tap of the
\* press, or a segment of the stroke.
Erases ==
    /\ Desktop /\ current_tool = "ERASER" /\ selection_rect = None
    /\ event' \in {"mousePress", "mouseMove"}
    /\ Painting(Nxt)
\* Transparent pixels have alpha zero, all others are opaque.
Alpha(color) == IF color = "T" THEN 0 ELSE 255

\* C25: a draw_line call of the eraser raises the alpha of no pixel of the
\* layer, and the stamp of the tap leaves alpha zero at the press point.
C25_EraserClears ==
    [][Erases =>
          /\ \A p \in DOMAIN active_layer(Cur).px :
                Alpha(active_layer(Nxt).px[p]) <= Alpha(active_layer(Cur).px[p])
          /\ event' = "mousePress" => Alpha(active_layer(Nxt).px[last_point']) = 0]_vars

\* ------------------------------------------------------ the brush settings
\* The size slider, the colour dialog and the tool buttons of the desktop
\* programs; set_brush_size is called with sizes below, in and above the
\* range of the root's slider (1 to 500; Gesso's slider goes up to 1000).
SliderSizes == {-1, 0, 1, MaxBrushSize, MaxBrushSize + 1, 2 * MaxBrushSize}
NextSettings ==
    \/ \E size \in SliderSizes : SetBrushSize(size)
    \/ \E color \in BrushColors : SetBrushColor(color)
    \/ \E tool \in Tools : SetTool(tool)

SpecSettings == Started({"root", "gesso"}) /\ [][NextSettings]_vars

\* C26: on the desktop programs the brush size is at least 1 and at most 500
\* after any sequence of set_brush_size calls.
C26_BrushSizeClamped ==
    Desktop => 1 <= brush_size /\ brush_size <= MaxBrushSize

\* ------------------------------------------------------ the reach of a stamp
\* The size and scatter sliders are moved; sizes and scatter values come
\* from the ranges of the sliders (1 to 500, Gesso 1 to 1000; 0 to 100).
ReachSizes == {1, 2, InitBrushSize, MaxBrushSize, 2 * MaxBrushSize}
ScatterSteps == {0, 1, 25, 50, 99, 100}
NextReach ==
    \/ \E size \in ReachSizes : SetBrushSize(size)
    \/ \E value \in ScatterSteps : SetJitterScatter(value)
    \/ \E color \in BrushColors : SetBrushColor(color)

SpecReach == Started({"root", "gesso"}) /\ [][NextReach]_vars

\* C27: for the brush size as it is, max_reach is at least the brush size
\* and does not decrease when the scatter grows.
C27_ReachMonotone ==
    /\ max_reach(brush_size, jitter_scatter) >= brush_size
    /\ \A more \in ScatterSteps :
          more >= jitter_scatter =>
             max_reach(brush_size, more) >= max_reach(brush_size, jitter_scatter)
\* The scatter slider was moved up to 50 and the reach grew with it.
C27_Witness ==
    /\ event = "set_jitter_scatter" /\ jitter_scatter = 50
    /\ max_reach(brush_size, jitter_scatter) > max_reach(brush_size, 0)
    /\ max_reach(brush_size, 100) > max_reach(brush_size, jitter_scatter)

\* ------------------------------------------------- undo and redo by key
\* Strokes from the left of the canvas, between which Ctrl+Z and Ctrl+Y are
\* pressed on the canvas of the root and of the studio.
UndoRedoKeys == {"Ctrl+Z", "Ctrl+Y"}
NextChords ==
    \/ MousePress(Point(2, 0))
    \/ MouseMove(Point(22, 0))
    \/ MouseRelease
    \/ Idle /\ \E chord \in UndoRedoKeys : Chord(chord)
    \/ Idle /\ KeyRelease("Z")
    \/ StudioMousePress(Point(2, 0))
    \/ StudioMouseMove(Point(22, 0))
    \/ StudioMouseRelease
    \/ Idle /\ \E chord \in UndoRedoKeys : StudioKeyPress(chord)

SpecChords == Started({"root", "studio"}) /\ [][NextChords]_vars

\* C28: Ctrl+Z pressed while the undo stack holds an entry performs one undo
\* (the entry moves to the redo stack), and Ctrl+Y pressed while the redo
\* stack holds an entry performs one redo (the entry moves back).
C28_KeysReachHistory ==
    [][/\ (event' = "Ctrl+Z" /\ undo_stack # <<>>) =>
             /\ Len(undo_stack') = Len(undo_stack) - 1
             /\ Len(redo_stack') = Len(redo_stack) + 1
       /\ (event' = "Ctrl+Y" /\ redo_stack # <<>>) =>
             /\ Len(redo_stack') = Len(redo_stack) - 1
             /\ Len(undo_stack') = Len(undo_stack) + 1]_vars

\* ------------------------------------------- the history and the layer list
\* One stroke is drawn on the active layer and undone and redone, while
\* layers are added, deleted and selected in the layer panel.
NoHistory == undo_stack = <<>> /\ redo_stack = <<>>
NextBound ==
    \/ NoHistory /\ MousePress(Point(2, 0))
    \/ MouseRelease
    \/ Idle /\ \E chord \in UndoRedoKeys : Chord(chord)
    \/ Idle /\ KeyRelease("Z")
    \/ Idle /\ AddNewLayer
    \/ Idle /\ DeleteActiveLayer
    \/ Idle /\ \E index \in 0 .. MaxLayers - 1 : SetActiveLayer(index)
    \/ NoHistory /\ StudioMousePress(Point(2, 0))
    \/ StudioMouseMove(Point(22, 0))
    \/ StudioMouseRelease
    \/ Idle /\ StudioUndo
    \/ Idle /\ StudioRedo
    \/ Idle /\ StudioAddLayer
    \/ Idle /\ StudioDeleteLayer
    \/ Idle /\ \E row \in 0 .. MaxLayers - 1 : StudioChangeLayer(row)

SpecBound == Started({"root", "studio"}) /\ [][NextBound]_vars

Top(stack) == stack[Len(stack)]
\* The layer now at the index of `entry` shows `patch` at the entry's
\* rectangle (or no layer has that index).
Shows(entry, patch) ==
    entry.layer_index < Len(layers) =>
       Copy(layers[entry.layer_index + 1], entry.rect) = patch
Entries(stack) == {stack[i] : i \in DOMAIN stack}

\* C29: an undo or a redo writes the pixels of its entry into the layer the
\* entry was recorded on.  Root: the layer the undo finds at the recorded
\* index is the recorded one, showing the entry's `after` pixels at the
\* entry's rectangle (a redo: its `before` pixels).  Studio: once a layer is
\* deleted, no entry is left for its index or an index above, where another
\* layer now is or will be.
C29_EntriesFollowLayer ==
    [][/\ (program = "root" /\ event' = "Ctrl+Z" /\ undo_stack # <<>>) =>
             Shows(Top(undo_stack), Top(undo_stack).after)
       /\ (program = "root" /\ event' = "Ctrl+Y" /\ redo_stack # <<>>) =>
             Shows(Top(redo_stack), Top(redo_stack).before)
       /\ (Studio /\ event' = "delete_active_layer" /\ Len(layers') < Len(layers)) =>
             \A entry \in Entries(undo_stack') \cup Entries(redo_stack') :
                entry.layer_index < current_layer_index]_vars

\* C30: in the studio the active layer index always names a layer of the
\* list: 0 <= active_layer_index < len(layers).
C30_ActiveIndexValid ==
    Studio => 0 <= current_layer_index /\ current_layer_index < Len(layers)

\* C31: HistoryManager.undo of the studio called on a non-empty undo stack
\* returns the index of the layer it modified and loses no entry (the entry
\* moves to the redo stack); redo likewise on a non-empty redo stack.
C31_UndoReturnsIndex ==
    [][/\ (Studio /\ event' = "undo" /\ undo_stack # <<>>) =>
             /\ ret' = ToString(Top(undo_stack).layer_index)
             /\ Len(undo_stack') + Len(redo_stack') = Len(undo_stack) + Len(redo_stack)
       /\ (Studio /\ event' = "redo" /\ redo_stack # <<>>) =>
             /\ ret' = ToString(Top(redo_stack).layer_index)
             /\ Len(undo_stack') + Len(redo_stack') = Len(undo_stack) + Len(redo_stack)]_vars

\* A step that lifts the selection from the active layer to a new floating
\* layer.
Lifts ==
    /\ Studio /\ ActiveOK(Cur)
    /\ Len(layers') = Len(layers) + 1 /\ Floats(Nxt)
\* The state commit_transform leaves when it is called on the lifted layer.
Merged == studio_commit_transform(Nxt)

\* C32: the floating layer lifted from layer L is merged by commit_transform
\* into L itself: L becomes the active layer and no layer but L gets other
\* pixels, at whatever position of the stack L is.
C32_MergesIntoSource ==
    [][(Lifts /\ Len(Merged.layers) = Len(layers)) =>
          /\ Merged.current_layer_index = current_layer_index
          /\ \A i \in DOMAIN layers :
                i # current_layer_index + 1 => Merged.layers[i] = layers[i]]_vars

\* ------------------------------------------------------- floating pixels
\* The root canvas: a marquee is dragged on the background or on Layer 1, a
\* press inside it lifts the pixels, and the Escape and Return keys, the tool
\* buttons and further presses follow.
FloatTools == {"MARQUEE", "MOVE"}
FloatKeys == {"Escape", "Return"}
NextFloat ==
    \/ current_tool \in FloatTools /\ \E pos \in DrawPositions : MousePress(pos)
    \/ \E pos \in DrawPositions : MouseMove(pos)
    \/ MouseRelease
    \/ Idle /\ \E tool \in FloatTools : SetTool(tool)
    \/ Idle /\ SetActiveLayer(0)
    \/ Idle /\ \E key \in FloatKeys : KeyPress(key)

SpecFloat == Started({"root"}) /\ [][NextFloat]_vars

\* C33: the pixels held in floating_pixmap are not lost: a step after which
\* floating_pixmap no longer holds them has drawn them into the active layer
\* at floating_pos.
C33_FloatingKept ==
    [][(program = "root" /\ PixmapTruthy(floating_pixmap)
                         /\ floating_pixmap' # floating_pixmap) =>
          active_layer(Nxt) = DrawOver(active_layer(Cur), floating_pos, floating_pixmap)]_vars

\* C34: with the patch-based HistoryManager the undo stack and the redo
\* stack together never hold more than max_history entries.
C34_StacksBounded ==
    program \in {"root", "gesso"} =>
        Len(undo_stack) + Len(redo_stack) <= max_history
\* A full history of which one entry has been undone.
C34_Witness ==
    /\ program = "root" /\ event = "Ctrl+Z" /\ redo_stack # <<>>
    /\ Len(undo_stack) + Len(redo_stack) = max_history

\* C35: a press with the fill tool after which every layer has the pixels it
\* had (the seed is outside the layer, or the seed pixel has the fill colour
\* already) leaves the undo stack and the redo stack as they were.
C35_IdleFillKeepsHistory ==
    [][(program = "root" /\ event' = "mousePress" /\ current_tool = "FILL"
                         /\ layers' = layers) =>
          /\ undo_stack' = undo_stack
          /\ redo_stack' = redo_stack]_vars

\* C36: in every reachable state of the studio at most one layer is a
\* floating layer.
C36_OneFloatingLayer ==
    program = "studio" => Cardinality(FloatingLayers(layers)) <= 1

\* C37: a lift does not duplicate pixels: of the pixels of the source layer
\* that are not transparent and lie in the region the floating layer is
\* taken from, each is afterwards on exactly one of the source layer and the
\* floating layer.
C37_LiftMovesPixels ==
    [][(Lifts /\ event' = "mousePress") =>
          LET region == BoundingRect(selection_path)
              source == Active.image.px
              left == layers'[current_layer_index + 1].image.px
              floating == layers'[Len(layers')]
          IN  \A p \in DOMAIN source :
                 (RectContains(region, p) /\ source[p] # "T") =>
                    LET q == Point(PX(p) - floating.x, PY(p) - floating.y)
                    IN  (left[p] # "T") # (floating.image.px[q] # "T")]_vars

\* ------------------------------------------------ strokes of one segment
\* The desktop programs: the brush, at several sizes, is pressed at a start
\* point and dragged in one move to an end point, on the canvas or beyond
\* its right edge (the long drag with the larger sizes only).  The session
\* ends when the history is full.
StampStarts == {Point(0, 0), Point(3, 0)}
StampEnds == {Point(7, 0), Point(22, 0), Point(100, 0), Point(0, 1)}
StampSizes == {5, InitBrushSize, 30}
NextStamps ==
    \/ ~HistoryFull /\ \E pos \in StampStarts : MousePress(pos)
    \/ /\ dist_to_next_dot = 0
       /\ \E pos \in StampEnds :
             /\ PX(pos) > CanvasW => brush_size >= InitBrushSize
             /\ MouseMove(pos)
    \/ MouseRelease
    \/ Idle /\ \E size \in StampSizes : SetBrushSize(size)

SpecStamps == Started({"root", "gesso"}) /\ [][NextStamps]_vars

FillSeeds == {Point(2, 0), Point(22, 1), Point(CanvasW, 0)}
NoFill == Idle /\ fill = None
FewSaved == Len(undo_stack) < 2
NextFill ==
    \/ NoFill /\ FewSaved /\ \E pos \in FillSeeds : FillStart(pos)
    \/ NoFill /\ FewSaved /\ \E pos \in FillSeeds : BucketStart(pos)
    \/ FillStep
    \/ FillReturn
    \/ NoFill /\ FewSaved /\ current_tool = "BRUSH" /\ MousePress(Point(12, 1))
    \/ MouseRelease
    \/ NoFill /\ \E tool \in DrawTools : SetTool(tool)
    \/ NoFill /\ SetBrushSize(2)
    \/ NoFill /\ \E color \in BrushColors : SetBrushColor(color)
    \/ NoFill /\ \E row \in 0 .. 1 : StudioChangeLayer(row)

SpecFill ==
    /\ Started({"root", "studio"}) /\ [][NextFill]_vars
    /\ WF_vars(FillStep)

\* C39: a flood fill terminates: once the loop of a fill is reached, its
\* queue eventually is empty, which is when the loop ends and the fill
\* returns.
C39_FillTerminates == (fill # None) ~> (fill # None /\ fill.queue = <<>>)
\* The bucket has filled a transparent layer with black, which matches
\* transparent within the tolerance: every pixel was visited, the stack is
\* empty, and the image is the one the fill computes.
C39_Witness ==
    /\ program = "studio" /\ fill # None /\ fill.queue = <<>>
    /\ fill.new_color # fill.target_color
    /\ colors_match(fill.new_color, fill.target_color)
    /\ fill.visited = DOMAIN fill.image.px
    /\ fill.image = bucket_flood_fill(PyAt(layers, current_layer_index).image,
                                      fill.seed, fill.new_color)

\* ---------------------------------------------- strokes of many segments
\* The desktop programs: strokes of the brush, at several sizes, through
\* points near and far from one another, until two operations are saved.
\* The size is set between strokes only.
CarryPoints == {Point(0, 0), Point(0, 1), Point(7, 0), Point(22, 0)}
NextCarry ==
    \/ FewSaved /\ \E pos \in StampStarts : MousePress(pos)
    \/ \E pos \in CarryPoints : MouseMove(pos)
    \/ MouseRelease
    \/ Idle /\ \E size \in StampSizes : SetBrushSize(size)

SpecCarry == Started({"root", "gesso"}) /\ [][NextCarry]_vars

\* C40: while a stroke is drawn with one brush size, the distance carried to
\* the next stamp lies between 0 and the spacing after every draw_line call.
\* (In tenths of a pixel.)
C40_CarryInRange ==
    (Desktop /\ Painting(Cur)) =>
        /\ 0 <= dist_to_next_dot
        /\ dist_to_next_dot <= Max(10, brush_size)
\* A segment shorter than the carried distance has been drawn: no stamp was
\* placed and the rest of the distance is carried on.
C40_Witness ==
    /\ program = "root" /\ Painting(Cur) /\ event = "mouseMove"
    /\ brush_size = 30 /\ dist_to_next_dot = 10

====
